---- MODULE Spec2Model ----
(***************************************************************************)
(* Wattly bill audit: a model of the text extraction helpers, the savings *)
(* calculators and the POST /proposal handlers of the repository.         *)
(*                                                                         *)
(* JavaScript values are tagged records: null, undefined (an absent key), *)
(* NaN, +/-Infinity, finite numbers (exact rationals n/d in lowest terms) *)
(* and strings.  Texts, lines and form fields are TLA+ strings and the    *)
(* regular expressions of the source are matched character by character.  *)
(***************************************************************************)
EXTENDS Integers, Sequences, FiniteSets, TLC

VARIABLES
    cpc, cin, cout,          \* savings calculators applied to drawn inputs
    mpc, mtext, mlabels, mout, \* findMoney applied to a drawn document
    pc, req, text, audit, locals, savings, proposal, res, \* server.js POST /proposal
    pdfkit, apc, areq, atext, aaudit, apicked, asavings, ares, \* part_005 POST /proposal
    tpc, ttext, tout,        \* the bill parsers applied to a drawn document
    smtp, hpc, hreq, htext, hinfo, hcalc, hmail, hres, \* part_002 POST /proposal
    kapp, matrix, kpc, kreq, ktext, kres, \* requests in flight in one process
    now, fpc, fin, fout,     \* the clock; an operation applied to drawn arguments
    doc, chunks, promise, pdfres \* proposalPdfBuffer and sendProposalPdf

varsCalc  == <<cpc, cin, cout>>
varsMoney == <<mpc, mtext, mlabels, mout>>
varsSrv   == <<pc, req, text, audit, locals, savings, proposal, res>>
varsAuto  == <<pdfkit, apc, areq, atext, aaudit, apicked, asavings, ares>>
varsAudit == <<tpc, ttext, tout>>
varsHtml  == <<smtp, hpc, hreq, htext, hinfo, hcalc, hmail, hres>>
varsConc  == <<kapp, matrix, kpc, kreq, ktext, kres>>
varsFun   == <<now, fpc, fin, fout>>
varsPdf   == <<doc, chunks, promise, pdfres>>
varsLate  == <<varsFun, varsPdf>>
varsMore  == <<varsAudit, varsHtml, varsConc, varsLate>>
vars      == <<varsCalc, varsMoney, varsSrv, varsAuto, varsMore>>

----------------------------------------------------------------------------
(* Bounds of the model *)

MaxQty     == 3   \* drawn quantities are the multiples 0..MaxQty of 61
MaxRate    == 3   \* drawn rates are the multiples 0..MaxRate of 0.23
MaxLines   == 4   \* lines of a document drawn for findMoney
MaxBillLines == 2 \* lines of an uploaded bill
MaxClients == 2   \* requests in flight in one process

----------------------------------------------------------------------------
(* JavaScript values *)

Null      == [k |-> "null"]
Undefined == [k |-> "undef"]
NaN       == [k |-> "nan"]
Inf(sg)   == [k |-> "inf", s |-> sg]
Str(s)    == [k |-> "str", s |-> s]

Abs(x) == IF x < 0 THEN -x ELSE x

RECURSIVE Gcd(_, _)
Gcd(a, b) == IF b = 0 THEN a ELSE Gcd(b, a % b)

\* the finite number n/d, d > 0, in lowest terms
Num(n, d) ==
    LET g == Gcd(Abs(n), d)
    IN  [k |-> "num", n |-> n \div g, d |-> d \div g]

Int2Num(i) == Num(i, 1)
Zero == Num(0, 1)

IsNum(v)  == v.k = "num"
IsNaN(v)  == v.k = "nan"
\* x == null / x != null of JavaScript: true of null and undefined
EqNull(v) == v.k \in {"null", "undef"}

Sign(v) == IF v.k = "inf" THEN v.s
           ELSE IF v.n > 0 THEN 1 ELSE IF v.n < 0 THEN -1 ELSE 0

\* a - b on numbers
Sub(a, b) ==
    IF IsNaN(a) \/ IsNaN(b) THEN NaN
    ELSE IF a.k = "inf" /\ b.k = "inf"
         THEN (IF a.s = b.s THEN NaN ELSE a)
    ELSE IF a.k = "inf" THEN a
    ELSE IF b.k = "inf" THEN Inf(-b.s)
    ELSE Num(a.n * b.d - b.n * a.d, a.d * b.d)

\* a * b on numbers
Mul(a, b) ==
    IF IsNaN(a) \/ IsNaN(b) THEN NaN
    ELSE IF a.k = "inf" \/ b.k = "inf"
         THEN (IF Sign(a) * Sign(b) = 0 THEN NaN ELSE Inf(Sign(a) * Sign(b)))
    ELSE Num(a.n * b.n, a.d * b.d)

\* a / b on numbers
Div(a, b) ==
    IF IsNaN(a) \/ IsNaN(b) THEN NaN
    ELSE IF a.k = "inf" /\ b.k = "inf" THEN NaN
    ELSE IF a.k = "inf" THEN Inf(IF Sign(b) < 0 THEN -a.s ELSE a.s)
    ELSE IF b.k = "inf" THEN Zero
    ELSE IF b.n = 0 THEN (IF a.n = 0 THEN NaN ELSE Inf(Sign(a)))
    ELSE Num(a.n * b.d * Sign(b), a.d * Abs(b.n))

\* a > b on finite numbers
Gt(a, b) == a.n * b.d > b.n * a.d

\* ToBoolean
Truthy(v) ==
    CASE v.k = "null"  -> FALSE
      [] v.k = "undef" -> FALSE
      [] v.k = "nan"   -> FALSE
      [] v.k = "num"   -> v.n # 0
      [] v.k = "inf"   -> TRUE
      [] v.k = "bool"  -> v.b
      [] v.k = "str"   -> v.s # ""
      [] OTHER         -> TRUE   \* an object

\* x || y
OrElse(x, y) == IF Truthy(x) THEN x ELSE y

----------------------------------------------------------------------------
(* Strings and the regular expressions of the source *)

DigitChars == {"0", "1", "2", "3", "4", "5", "6", "7", "8", "9"}
DigitVal == [c \in DigitChars |->
    CASE c = "0" -> 0 [] c = "1" -> 1 [] c = "2" -> 2 [] c = "3" -> 3
      [] c = "4" -> 4 [] c = "5" -> 5 [] c = "6" -> 6 [] c = "7" -> 7
      [] c = "8" -> 8 [] c = "9" -> 9]

UpperChars == {"A", "B", "C", "D", "E", "F", "G", "H", "I", "J", "K", "L", "M",
               "N", "O", "P", "Q", "R", "S", "T", "U", "V", "W", "X", "Y", "Z"}
LowerOf == [c \in UpperChars |->
    CASE c = "A" -> "a" [] c = "B" -> "b" [] c = "C" -> "c" [] c = "D" -> "d"
      [] c = "E" -> "e" [] c = "F" -> "f" [] c = "G" -> "g" [] c = "H" -> "h"
      [] c = "I" -> "i" [] c = "J" -> "j" [] c = "K" -> "k" [] c = "L" -> "l"
      [] c = "M" -> "m" [] c = "N" -> "n" [] c = "O" -> "o" [] c = "P" -> "p"
      [] c = "Q" -> "q" [] c = "R" -> "r" [] c = "S" -> "s" [] c = "T" -> "t"
      [] c = "U" -> "u" [] c = "V" -> "v" [] c = "W" -> "w" [] c = "X" -> "x"
      [] c = "Y" -> "y" [] c = "Z" -> "z"]

IsDigit(c) == c \in DigitChars
\* \s
IsSpace(c) == c \in {" ", "\t", "\n", "\r", "\f"}

\* String.prototype.toLowerCase
RECURSIVE ToLower(_)
ToLower(s) ==
    IF s = "" THEN ""
    ELSE (IF Head(s) \in UpperChars THEN LowerOf[Head(s)] ELSE Head(s))
         \o ToLower(Tail(s))

\* String.prototype.includes
Includes(s, p) == \E i \in 1..(Len(s) - Len(p) + 1) : SubSeq(s, i, i + Len(p) - 1) = p

\* new RegExp(phrase, "i").test(s) for a phrase without metacharacters
ITest(s, phrase) == Includes(ToLower(s), ToLower(phrase))

\* String.prototype.trim
RECURSIVE TrimLeft(_)
TrimLeft(s) == IF s # "" /\ IsSpace(Head(s)) THEN TrimLeft(Tail(s)) ELSE s
RECURSIVE TrimRight(_)
TrimRight(s) ==
    IF s # "" /\ IsSpace(SubSeq(s, Len(s), Len(s)))
    THEN TrimRight(SubSeq(s, 1, Len(s) - 1)) ELSE s
Trim(s) == TrimRight(TrimLeft(s))

\* text.split(/\r?\n/), cur being the piece read so far
RECURSIVE SplitFrom(_, _)
SplitFrom(s, cur) ==
    IF s = "" THEN <<cur>>
    ELSE IF Head(s) = "\n" THEN <<cur>> \o SplitFrom(Tail(s), "")
    ELSE IF Len(s) >= 2 /\ SubSeq(s, 1, 2) = "\r\n"
         THEN <<cur>> \o SplitFrom(SubSeq(s, 3, Len(s)), "")
    ELSE SplitFrom(Tail(s), cur \o Head(s))
SplitLines(s) == SplitFrom(s, "")

\* text.split(/\r?\n/).map((l) => l.trim()).filter(Boolean)
RECURSIVE TrimFilter(_)
TrimFilter(ls) ==
    IF ls = <<>> THEN <<>>
    ELSE LET l == Trim(Head(ls))
         IN  (IF l # "" THEN <<l>> ELSE <<>>) \o TrimFilter(Tail(ls))
Lines(s) == TrimFilter(SplitLines(s))

\* number of leading digits of s
RECURSIVE DigitRun(_)
DigitRun(s) == IF s # "" /\ IsDigit(Head(s)) THEN 1 + DigitRun(Tail(s)) ELSE 0

\* value of a string of digits, continuing from acc
RECURSIVE DigitsFrom(_, _)
DigitsFrom(s, acc) ==
    IF s = "" THEN acc ELSE DigitsFrom(Tail(s), acc * 10 + DigitVal[Head(s)])
DigitsValue(s) == DigitsFrom(s, 0)

RECURSIVE Pow10(_)
Pow10(n) == IF n = 0 THEN 1 ELSE 10 * Pow10(n - 1)

\* s.replace(/,/g, "")
RECURSIVE DropCommas(_)
DropCommas(s) ==
    IF s = "" THEN ""
    ELSE (IF Head(s) = "," THEN "" ELSE Head(s)) \o DropCommas(Tail(s))

Drop(s, n) == SubSeq(s, n + 1, Len(s))

\* (?:\.[0-9]{2}) at the head of s
FracAt(s) == Len(s) >= 3 /\ Head(s) = "." /\ DigitRun(Tail(s)) >= 2

\* length of the longest run of (?:,[0-9]{3}) groups at the head of s
RECURSIVE GroupsLen(_)
GroupsLen(s) ==
    IF Len(s) >= 4 /\ Head(s) = "," /\ DigitRun(Tail(s)) >= 3
       \* [0-9]{3} takes three digits whatever follows them
    THEN 4 + GroupsLen(Drop(s, 4)) ELSE 0

\* length of the match of
\*   [0-9]{1,3}(?:,[0-9]{3})*(?:\.[0-9]{2})|[0-9]+\.[0-9]{2}
\* anchored at the head of s, 0 when there is none
AmountLenAt(s) ==
    LET r  == DigitRun(s)
        \* first alternative: k leading digits (k = 3, 2, 1), then the groups,
        \* then the cents; the repetition backtracks from the longest run
        Alt1(k) == IF k > r THEN 0
                   ELSE LET g == GroupsLen(Drop(s, k))
                            fits == {n \in 0..(g \div 4) : FracAt(Drop(s, k + 4 * n))}
                        IN  IF fits = {} THEN 0
                            ELSE k + 4 * (CHOOSE n \in fits : \A m \in fits : m <= n) + 3
        a1 == IF Alt1(3) > 0 THEN Alt1(3)
              ELSE IF Alt1(2) > 0 THEN Alt1(2) ELSE Alt1(1)
        a2 == IF r >= 1 /\ FracAt(Drop(s, r)) THEN r + 3 ELSE 0
    IN  IF r = 0 THEN 0 ELSE IF a1 > 0 THEN a1 ELSE a2

\* parseFloat of a matched amount whose commas were removed: digits "." 2 digits
ParseAmount(s) ==
    LET t == DropCommas(s)
        r == DigitRun(t)
    IN  Num(DigitsValue(SubSeq(t, 1, r)) * 100 + DigitsValue(SubSeq(t, r + 2, r + 3)), 100)

\* the match of /\$?\s*(amount)/ anchored at the head of s:
\* [len: length of the whole match, val: the captured amount], len 0 when none
MoneyAt(s) ==
    LET d == IF s # "" /\ Head(s) = "$" THEN 1 ELSE 0
        w == Len(Drop(s, d)) - Len(TrimLeft(Drop(s, d)))
        a == AmountLenAt(Drop(s, d + w))
    IN  IF a = 0 THEN [len |-> 0, val |-> Null]
        ELSE [len |-> d + w + a, val |-> ParseAmount(SubSeq(s, d + w + 1, d + w + a))]

\* m, or alt when m is null
IfNull(m, alt) == IF m # Null THEN m ELSE alt

\* lines[j].match(/\$?\s*(amount)/): the value of the leftmost match, or null
RECURSIVE FirstMoney(_)
FirstMoney(s) ==
    IF s = "" THEN Null
    ELSE IfNull(MoneyAt(s).val, FirstMoney(Tail(s)))

\* text.match(/\$?\s*(amount)/g): the values of the successive matches
RECURSIVE AllMoney(_)
AllMoney(s) ==
    IF s = "" THEN <<>>
    ELSE LET m == MoneyAt(s)
         IN  IF m.len > 0 THEN <<m.val>> \o AllMoney(Drop(s, m.len))
             ELSE AllMoney(Tail(s))

----------------------------------------------------------------------------
(* findMoney: label-proximity search with the global-maximum fallback *)

Min(a, b) == IF a < b THEN a ELSE b

\* labelRegex.test(line), labelRegex = new RegExp(labels.join("|"), "i")
LabelHit(line, labels) == \E k \in 1..Len(labels) : ITest(line, labels[k])

\* the inner loop: for (j = i; j < Math.min(i + 3, lines.length); j++), 1-based
RECURSIVE WindowFrom(_, _, _)
WindowFrom(lines, j, last) ==
    IF j > last THEN Null
    ELSE IfNull(FirstMoney(lines[j]), WindowFrom(lines, j + 1, last))

\* the window stops one line early
WindowMoney_narrow(lines, i) == WindowFrom(lines, i, Min(i + 1, Len(lines)))
WindowMoney(lines, i) == WindowFrom(lines, i, Min(i + 2, Len(lines)))

\* the outer loop: for (i = 0; i < lines.length; i++)
RECURSIVE LabelMoney(_, _, _)
LabelMoney(lines, labels, i) ==
    IF i > Len(lines) THEN Null
    ELSE IfNull(IF LabelHit(lines[i], labels) THEN WindowMoney(lines, i) ELSE Null,
                LabelMoney(lines, labels, i + 1))

\* for (const s of moneyAll) if (!isNaN(v) && (max === null || v > max)) max = v
RECURSIVE MaxFrom_first(_, _)
RECURSIVE MaxFrom(_, _)
\* the first amount is kept, later ones are not compared
MaxFrom_first(vs, max) ==
    IF vs = <<>> THEN max
    ELSE MaxFrom_first(Tail(vs), IF max = Null THEN Head(vs) ELSE max)
MaxFrom(vs, max) ==
    IF vs = <<>> THEN max
    ELSE MaxFrom(Tail(vs),
                 IF ~IsNaN(Head(vs)) /\ (max = Null \/ Gt(Head(vs), max))
                 THEN Head(vs) ELSE max)

\* the document-wide maximum is tried before the labels
findMoney_maxFirst(t, labels) ==
    IfNull(MaxFrom(AllMoney(t), Null), LabelMoney(Lines(t), labels, 1))
findMoney(t, labels) ==
    IfNull(IF Len(labels) > 0 THEN LabelMoney(Lines(t), labels, 1) ELSE Null,
           MaxFrom(AllMoney(t), Null))

\* the label lists of auditFromText
TotalDueLabels == <<"Total amount due", "Amount due", "Current balance due", "Total due">>
DeliveryLabels == <<"delivery charges", "distribution", "basic service charge">>
SupplyLabels   == <<"supply charges", "generation", "energy supply", "gas supply">>
TaxLabels      == <<"sales tax", "tax", "grt">>
LabelLists     == {TotalDueLabels, DeliveryLabels, SupplyLabels, TaxLabels}

\* documents: at most n lines of a vocabulary, joined by line feeds
RECURSIVE JoinLines(_)
JoinLines(ls) ==
    IF ls = <<>> THEN ""
    ELSE IF Len(ls) = 1 THEN Head(ls)
    ELSE Head(ls) \o "\n" \o JoinLines(Tail(ls))

TextsOf(vocab, n) == {JoinLines(ls) : ls \in UNION {[1..k -> vocab] : k \in 0..n}}

MoneyVocab == {"  ", "Supply Charges", "gas supply $45.10", "Sales Tax\r",
               " $99.99 then 1,250.00"}
MoneyTexts == TextsOf(MoneyVocab, MaxLines)

----------------------------------------------------------------------------
(* A backtracking matcher for the other regular expressions of the source. *)
(* A pattern is [ci: the i flag, n: a sequence of nodes]; a node is        *)
(*   [t |-> "lit", s]            the literal s                             *)
(*   [t |-> "opt", s]            the literal s, optional (greedy)          *)
(*   [t |-> "alt", a]            one of the literals a[1] | a[2] | ...     *)
(*   [t |-> "rep", c, min, max]  min..max characters of class c (greedy,   *)
(*                               max = -1: unbounded)                      *)
(*   [t |-> "lazy", c, min, max] the same, lazy                            *)
(*   [t |-> "open", g], [t |-> "close", g]   capture group g               *)
(*   [t |-> "wb"]                \b                                        *)
(*   [t |-> "bol"]               ^ under the m flag                        *)
(*   [t |-> "nla", s]            (?!s)                                     *)
(*   [t |-> "eos"]               $ without the m flag                      *)
(*   [t |-> "optfrac"]           (?:\.\d+)?, before a node that cannot start  *)
(*                               with a digit                              *)

Lit(s)            == [t |-> "lit", s |-> s]
Opt(s)            == [t |-> "opt", s |-> s]
Rep(c, min, max)  == [t |-> "rep", c |-> c, min |-> min, max |-> max]
Open(g)           == [t |-> "open", g |-> g]
Close(g)          == [t |-> "close", g |-> g]
WordB             == [t |-> "wb"]
Alt(a)            == [t |-> "alt", a |-> a]
Lazy(c, min, max) == [t |-> "lazy", c |-> c, min |-> min, max |-> max]
Bol               == [t |-> "bol"]
NotAhead(s)       == [t |-> "nla", s |-> s]
Eos               == [t |-> "eos"]
OptFrac           == [t |-> "optfrac"]

LowerChars == {LowerOf[c] : c \in UpperChars}
IsWord(c) == c \in UpperChars \/ c \in LowerChars \/ c \in DigitChars \/ c = "_"

\* membership of the one-character string ch in the character class c
ClassHas(c, ch) ==
    CASE c = "d"      -> IsDigit(ch)                       \* \d
      [] c = "s"      -> IsSpace(ch)                       \* \s
      [] c = "colon-" -> ch \in {":", "-"}                  \* [:\-]
      [] c = "upper"  -> ch \in UpperChars                 \* [A-Z]
      [] c = "name"   -> \/ ch \in UpperChars \/ ch \in LowerChars
                         \/ ch \in {"&", "."} \/ IsSpace(ch) \* [A-Za-z&.\s]
      [] c = "numc"   -> IsDigit(ch) \/ ch = ","           \* [\d,]
      [] c = "numd"   -> IsDigit(ch) \/ ch = "."           \* [\d.]
      [] c = "colsp"  -> ch = ":" \/ IsSpace(ch)           \* [:\s]
      [] c = "nondig" -> ~IsDigit(ch)                      \* [^0-9]
      [] c = "alpha"  -> ch \in UpperChars \/ ch \in LowerChars \* [A-Za-z]
      [] c = "acct"   -> IsDigit(ch) \/ ch = "-"           \* [0-9\-]
      [] c = "sep"    -> ch \in {"/", "-"}                  \* [\/\-]
      [] c = "all"    -> TRUE                              \* [^]
      [] c = "any"    -> ch \notin {"\n", "\r"}            \* .
      [] OTHER        -> FALSE

CharAt(s, p) == SubSeq(s, p, p)

\* \b between positions p - 1 and p of s
AtWordBoundary(s, p) ==
    (p > 1 /\ p - 1 <= Len(s) /\ IsWord(CharAt(s, p - 1)))
        # (p <= Len(s) /\ IsWord(CharAt(s, p)))

LitAt(ci, s, p, l) ==
    /\ p + Len(l) - 1 <= Len(s)
    /\ IF ci THEN ToLower(SubSeq(s, p, p + Len(l) - 1)) = ToLower(l)
             ELSE SubSeq(s, p, p + Len(l) - 1) = l

\* number of characters of class c from position p on, at most max
RECURSIVE ClassRun(_, _, _, _)
ClassRun(c, s, p, max) ==
    IF max # 0 /\ p <= Len(s) /\ ClassHas(c, CharAt(s, p))
    THEN 1 + ClassRun(c, s, p + 1, max - 1) ELSE 0

RxFail == [ok |-> FALSE]
NoCaps == [g \in 1..2 |-> <<0, 0>>]

RECURSIVE RxM(_, _, _, _, _)
RECURSIVE RxRep(_, _, _, _, _, _)
RECURSIVE RxLazy(_, _, _, _, _, _, _)
RECURSIVE RxAlt(_, _, _, _, _, _)

\* node k of the pattern repeated n times, then the rest; more (up to top)
\* when that fails
RxLazy(pat, k, s, p, caps, n, top) ==
    IF n > top THEN RxFail
    ELSE LET r == RxM(pat, k + 1, s, p + n, caps)
         IN  IF r.ok THEN r ELSE RxLazy(pat, k, s, p, caps, n + 1, top)

\* the alternatives i.. of node k in turn, then the rest
RxAlt(pat, k, s, p, caps, i) ==
    IF i > Len(pat.n[k].a) THEN RxFail
    ELSE LET r == IF LitAt(pat.ci, s, p, pat.n[k].a[i])
                  THEN RxM(pat, k + 1, s, p + Len(pat.n[k].a[i]), caps)
                  ELSE RxFail
         IN  IF r.ok THEN r ELSE RxAlt(pat, k, s, p, caps, i + 1)

\* node k of the pattern repeated n times, then the rest; fewer when that fails
RxRep(pat, k, s, p, caps, n) ==
    IF n < pat.n[k].min THEN RxFail
    ELSE LET r == RxM(pat, k + 1, s, p + n, caps)
         IN  IF r.ok THEN r ELSE RxRep(pat, k, s, p, caps, n - 1)

\* the nodes k.. of the pattern matched from position p of s
RxM(pat, k, s, p, caps) ==
    IF k > Len(pat.n) THEN [ok |-> TRUE, end |-> p, caps |-> caps]
    ELSE LET nd == pat.n[k] IN
      CASE nd.t = "lit" ->
             IF LitAt(pat.ci, s, p, nd.s)
             THEN RxM(pat, k + 1, s, p + Len(nd.s), caps) ELSE RxFail
        [] nd.t = "opt" ->
             LET r == IF LitAt(pat.ci, s, p, nd.s)
                      THEN RxM(pat, k + 1, s, p + Len(nd.s), caps) ELSE RxFail
             IN  IF r.ok THEN r ELSE RxM(pat, k + 1, s, p, caps)
        [] nd.t = "rep" ->
             RxRep(pat, k, s, p, caps, ClassRun(nd.c, s, p, nd.max))
        [] nd.t = "open" ->
             RxM(pat, k + 1, s, p, [caps EXCEPT ![nd.g] = <<p, p>>])
        [] nd.t = "close" ->
             RxM(pat, k + 1, s, p, [caps EXCEPT ![nd.g] = <<caps[nd.g][1], p>>])
        [] nd.t = "wb" ->
             IF AtWordBoundary(s, p) THEN RxM(pat, k + 1, s, p, caps) ELSE RxFail
        [] nd.t = "lazy" ->
             RxLazy(pat, k, s, p, caps, nd.min, ClassRun(nd.c, s, p, nd.max))
        [] nd.t = "alt" -> RxAlt(pat, k, s, p, caps, 1)
        [] nd.t = "bol" ->
             IF p = 1 \/ CharAt(s, p - 1) \in {"\n", "\r"}
             THEN RxM(pat, k + 1, s, p, caps) ELSE RxFail
        [] nd.t = "eos" ->
             IF p = Len(s) + 1 THEN RxM(pat, k + 1, s, p, caps) ELSE RxFail
        [] nd.t = "nla" ->
             IF LitAt(pat.ci, s, p, nd.s) THEN RxFail
             ELSE RxM(pat, k + 1, s, p, caps)
        [] nd.t = "optfrac" ->
             LET n == IF p <= Len(s) /\ CharAt(s, p) = "." THEN ClassRun("d", s, p + 1, -1) ELSE 0
                 r == IF n > 0 THEN RxM(pat, k + 1, s, p + 1 + n, caps) ELSE RxFail
             IN  IF r.ok THEN r ELSE RxM(pat, k + 1, s, p, caps)

\* text.match(regex): the leftmost match, starting the search at position p
RECURSIVE RxSearch(_, _, _)
RxSearch(pat, s, p) ==
    IF p > Len(s) + 1 THEN RxFail
    ELSE LET r == RxM(pat, 1, s, p, NoCaps)
         IN  IF r.ok THEN [ok |-> TRUE, start |-> p, end |-> r.end, caps |-> r.caps]
             ELSE RxSearch(pat, s, p + 1)

Group(s, r, g) == SubSeq(s, r.caps[g][1], r.caps[g][2] - 1)

\* function firstMatch(text, regex)
firstMatch(t, pat) ==
    LET m == RxSearch(pat, t, 1)
    IN  IF m.ok THEN Str(Trim(Group(t, m, 1))) ELSE Null

\* regex.test(text)
RxTest(pat, t) == RxSearch(pat, t, 1).ok

\* what a call evaluates to when it throws
Thrown == [k |-> "throw"]

\* the regex matches t without its group g taking part: m[g] is undefined
\* and m[g].trim() throws a TypeError
Unset(m, g) == m.ok /\ m.caps[g] = <<0, 0>>
NoGroup(t, pat, g) == Unset(RxSearch(pat, t, 1), g)

\* parseInt(s, 10) of a string of digits
ParseIntDigits(s) == Int2Num(DigitsValue(s))

----------------------------------------------------------------------------
(* server.js: usage extraction and audit assembly *)

Spaces1 == Rep("s", 1, -1)   \* \s+
Spaces0 == Rep("s", 0, -1)   \* \s*

\* /Total\s+Gas\s+Use\s+(\d+)\s*therms?/i
RxThermsTotal == [ci |-> TRUE, n |-> <<Lit("Total"), Spaces1, Lit("Gas"), Spaces1,
    Lit("Use"), Spaces1, Open(1), Rep("d", 1, -1), Close(1), Spaces0,
    Lit("therm"), Opt("s")>>]
\* /Usage\s*[:\-]?\s*(\d+)\s*therms?/i
RxThermsUsage == [ci |-> TRUE, n |-> <<Lit("Usage"), Spaces0, Rep("colon-", 0, 1),
    Spaces0, Open(1), Rep("d", 1, -1), Close(1), Spaces0, Lit("therm"), Opt("s")>>]
\* /Total\s+usage\s+in\s+ccf\s+(\d+)/i
RxCcfTotal == [ci |-> TRUE, n |-> <<Lit("Total"), Spaces1, Lit("usage"), Spaces1,
    Lit("in"), Spaces1, Lit("ccf"), Spaces1, Open(1), Rep("d", 1, -1), Close(1)>>]
\* /\b(\d{2,6})\s*ccf\b/i
RxCcf == [ci |-> TRUE, n |-> <<WordB, Open(1), Rep("d", 2, 6), Close(1), Spaces0,
    Lit("ccf"), WordB>>]
\* /(\d{2,7})\s*kWh\b/i
RxKwh == [ci |-> TRUE, n |-> <<Open(1), Rep("d", 2, 7), Close(1), Spaces0,
    Lit("kWh"), WordB>>]

\* x ? parseInt(x, 10) : null
\* a missing quantity reads as 0
IntOrNull_zero(m) == IF Truthy(m) THEN ParseIntDigits(m.s) ELSE Zero
IntOrNull(m) == IF Truthy(m) THEN ParseIntDigits(m.s) ELSE Null

parseUsage(t) ==
    [gas_therms      |-> IntOrNull(OrElse(firstMatch(t, RxThermsTotal),
                                          firstMatch(t, RxThermsUsage))),
     gas_ccf         |-> IntOrNull(OrElse(firstMatch(t, RxCcfTotal),
                                          firstMatch(t, RxCcf))),
     electricity_kwh |-> IntOrNull(firstMatch(t, RxKwh))]

\* /con\s*ed(ison)?/i, as a test: the optional group cannot make it fail
RxConEd == [ci |-> TRUE, n |-> <<Lit("con"), Spaces0, Lit("ed")>>]
\* /pge\b/i, the first alternative of /pge\b|pacific gas/i
RxPge == [ci |-> TRUE, n |-> <<Lit("pge"), WordB>>]
\* /^([A-Z][A-Za-z&.\s]{3,40})\s+(Bill|Invoice|Statement)/m
RxUtilityLine == [ci |-> FALSE, n |-> <<Bol, Open(1), Rep("upper", 1, 1),
    Rep("name", 3, 40), Close(1), Spaces1,
    Open(2), Alt(<<"Bill", "Invoice", "Statement">>), Close(2)>>]

\* the sentinel is missing
guessUtility_noSentinel(t) ==
    IF RxTest(RxConEd, t) THEN Str("Con Edison")
    ELSE IF ITest(t, "southern california edison") \/ ITest(t, "sce") THEN Str("SCE")
    ELSE IF RxTest(RxPge, t) \/ ITest(t, "pacific gas") THEN Str("PG&E")
    ELSE IF ITest(t, "national grid") THEN Str("National Grid")
    ELSE IF ITest(t, "duke energy") THEN Str("Duke Energy")
    ELSE IF ITest(t, "sdge") \/ ITest(t, "san diego gas") THEN Str("SDG&E")
    ELSE firstMatch(t, RxUtilityLine)
guessUtility(t) ==
    IF RxTest(RxConEd, t) THEN Str("Con Edison")
    ELSE IF ITest(t, "southern california edison") \/ ITest(t, "sce") THEN Str("SCE")
    ELSE IF RxTest(RxPge, t) \/ ITest(t, "pacific gas") THEN Str("PG&E")
    ELSE IF ITest(t, "national grid") THEN Str("National Grid")
    ELSE IF ITest(t, "duke energy") THEN Str("Duke Energy")
    ELSE IF ITest(t, "sdge") \/ ITest(t, "san diego gas") THEN Str("SDG&E")
    ELSE OrElse(firstMatch(t, RxUtilityLine), Str("Unknown Utility"))

\* /Account\s+(?:#|number)[:\s]*([0-9\-]{6,})/i
RxAccount == [ci |-> TRUE, n |-> <<Lit("Account"), Spaces1, Alt(<<"#", "number">>),
    Rep("colsp", 0, -1), Open(1), Rep("acct", 6, -1), Close(1)>>]
\* /Acct(?:ount)?\s*(?:#|no\.?)[:\s]*([0-9\-]{6,})/i
RxAcct == [ci |-> TRUE, n |-> <<Lit("Acct"), Opt("ount"), Spaces0,
    Alt(<<"#", "no.", "no">>), Rep("colsp", 0, -1),
    Open(1), Rep("acct", 6, -1), Close(1)>>]

parseAccount(t) == OrElse(firstMatch(t, RxAccount), firstMatch(t, RxAcct))

\* /Billing period.*?(\b[A-Za-z]{3,9}\s+\d{1,2},\s*\d{4})\s*(?:to|-|...)\s*
\*  (\b[A-Za-z]{3,9}\s+\d{1,2},\s*\d{4})/i; the third separator is the en
\* dash, a character the texts drawn here do not contain
RxPeriodLong == [ci |-> TRUE, n |-> <<Lit("Billing period"), Lazy("any", 0, -1),
    Open(1), WordB, Rep("alpha", 3, 9), Spaces1, Rep("d", 1, 2), Lit(","), Spaces0,
    Rep("d", 4, 4), Close(1), Spaces0, Alt(<<"to", "-">>), Spaces0,
    Open(2), WordB, Rep("alpha", 3, 9), Spaces1, Rep("d", 1, 2), Lit(","), Spaces0,
    Rep("d", 4, 4), Close(2)>>]
\* /(\d{1,2}[\/\-]\d{1,2}[\/\-]\d{2,4})\s*(?:to|-|...)\s*
\*  (\d{1,2}[\/\-]\d{1,2}[\/\-]\d{2,4})/i
RxPeriodNumeric == [ci |-> TRUE, n |-> <<Open(1), Rep("d", 1, 2), Rep("sep", 1, 1),
    Rep("d", 1, 2), Rep("sep", 1, 1), Rep("d", 2, 4), Close(1), Spaces0,
    Alt(<<"to", "-">>), Spaces0, Open(2), Rep("d", 1, 2), Rep("sep", 1, 1),
    Rep("d", 1, 2), Rep("sep", 1, 1), Rep("d", 2, 4), Close(2)>>]

\* { start: m[1], end: m[2] } of a match m, both null without one
PeriodOf(t, m) ==
    IF m.ok THEN [start |-> Str(Group(t, m, 1)), end |-> Str(Group(t, m, 2))]
    ELSE [start |-> Null, end |-> Null]

\* the numeric pair is tried before the phrase-anchored long form
parseDates_numericFirst(t) ==
    IF RxTest(RxPeriodNumeric, t) THEN PeriodOf(t, RxSearch(RxPeriodNumeric, t, 1))
    ELSE PeriodOf(t, RxSearch(RxPeriodLong, t, 1))
parseDates(t) ==
    IF RxTest(RxPeriodLong, t) THEN PeriodOf(t, RxSearch(RxPeriodLong, t, 1))
    ELSE PeriodOf(t, RxSearch(RxPeriodNumeric, t, 1))

\* the patterns auditFromText hands to firstMatch
AuditPatterns == {RxUtilityLine, RxAccount, RxAcct, RxThermsTotal, RxThermsUsage,
                  RxCcfTotal, RxCcf, RxKwh}

\* the record auditFromText returns; meta (the time of parsing, the confidence
\* label) and _notes are left out
auditFromText(t) ==
    IF \E pat \in AuditPatterns : NoGroup(t, pat, 1) THEN Thrown
    ELSE [utility |-> guessUtility(t),
          account_number |-> parseAccount(t),
          billing_period |-> parseDates(t),
          totals |-> [total_due        |-> findMoney(t, TotalDueLabels),
                      delivery_charges |-> findMoney(t, DeliveryLabels),
                      supply_charges   |-> findMoney(t, SupplyLabels),
                      taxes            |-> findMoney(t, TaxLabels)],
          usage  |-> parseUsage(t)]

----------------------------------------------------------------------------
(* server.js: quantity selection, rate inference, savings *)

\* therms are tried before kWh
inferMonthlyQtyAndUnit_gasFirst(a) ==
    IF ~EqNull(a.usage.gas_therms)
    THEN [qty |-> a.usage.gas_therms, unit |-> Str("therms")]
    ELSE IF ~EqNull(a.usage.electricity_kwh)
    THEN [qty |-> a.usage.electricity_kwh, unit |-> Str("kWh")]
    ELSE IF ~EqNull(a.usage.gas_ccf)
    THEN [qty |-> a.usage.gas_ccf, unit |-> Str("ccf")]
    ELSE [qty |-> Null, unit |-> Null]
inferMonthlyQtyAndUnit(a) ==
    IF ~EqNull(a.usage.electricity_kwh)
    THEN [qty |-> a.usage.electricity_kwh, unit |-> Str("kWh")]
    ELSE IF ~EqNull(a.usage.gas_therms)
    THEN [qty |-> a.usage.gas_therms, unit |-> Str("therms")]
    ELSE IF ~EqNull(a.usage.gas_ccf)
    THEN [qty |-> a.usage.gas_ccf, unit |-> Str("ccf")]
    ELSE [qty |-> Null, unit |-> Null]

\* isFinite(r) on a number
IsFiniteNum(v) == v.k = "num"

inferCurrentRate(a) ==
    LET qty    == inferMonthlyQtyAndUnit(a).qty
        supply == a.totals.supply_charges
    IN  IF Truthy(qty) /\ Truthy(supply) /\ IsFiniteNum(Div(supply, qty))
        THEN Div(supply, qty) ELSE Null

Terms == {"2yr", "3yr", "4yr", "5yr"}
TermYears == [y \in Terms |->
    CASE y = "2yr" -> 2 [] y = "3yr" -> 3 [] y = "4yr" -> 4 [] y = "5yr" -> 5]

\* the guard is dropped for the offer rate, which then counts as 0 in the product
buildSavings_noOfferGuard(qty, currentRate, offerRate) ==
    IF ~(Truthy(qty) /\ ~EqNull(currentRate))
    THEN [unit |-> Null, monthlyQty |-> OrElse(qty, Null),
          currentRate |-> OrElse(currentRate, Zero),
          offerRate |-> OrElse(offerRate, Zero),
          monthlySavings |-> Null, annualSavings |-> Null,
          termSavings |-> [y \in Terms |-> Null]]
    ELSE LET offer   == IF EqNull(offerRate) THEN Zero ELSE offerRate
             monthly == Mul(Sub(currentRate, offer), qty)
             annual  == Mul(monthly, Int2Num(12))
         IN  [unit |-> Undefined, monthlyQty |-> qty,
              currentRate |-> currentRate, offerRate |-> offerRate,
              monthlySavings |-> monthly, annualSavings |-> annual,
              termSavings |-> [y \in Terms |-> Mul(annual, Int2Num(TermYears[y]))]]
\* the term savings are multiples of the monthly savings
buildSavings_monthlyTerms(qty, currentRate, offerRate) ==
    IF ~(Truthy(qty) /\ ~EqNull(currentRate) /\ ~EqNull(offerRate))
    THEN [unit |-> Null, monthlyQty |-> OrElse(qty, Null),
          currentRate |-> OrElse(currentRate, Zero),
          offerRate |-> OrElse(offerRate, Zero),
          monthlySavings |-> Null, annualSavings |-> Null,
          termSavings |-> [y \in Terms |-> Null]]
    ELSE LET monthly == Mul(Sub(currentRate, offerRate), qty)
             annual  == Mul(monthly, Int2Num(12))
         IN  [unit |-> Undefined, monthlyQty |-> qty,
              currentRate |-> currentRate, offerRate |-> offerRate,
              monthlySavings |-> monthly, annualSavings |-> annual,
              termSavings |-> [y \in Terms |-> Mul(monthly, Int2Num(TermYears[y]))]]
\* a worse offer is reported as no savings
buildSavings_clamped(qty, currentRate, offerRate) ==
    IF ~(Truthy(qty) /\ ~EqNull(currentRate) /\ ~EqNull(offerRate))
    THEN [unit |-> Null, monthlyQty |-> OrElse(qty, Null),
          currentRate |-> OrElse(currentRate, Zero),
          offerRate |-> OrElse(offerRate, Zero),
          monthlySavings |-> Null, annualSavings |-> Null,
          termSavings |-> [y \in Terms |-> Null]]
    ELSE LET diff    == Mul(Sub(currentRate, offerRate), qty)
             monthly == IF IsNum(diff) /\ diff.n < 0 THEN Zero ELSE diff
             annual  == Mul(monthly, Int2Num(12))
         IN  [unit |-> Undefined, monthlyQty |-> qty,
              currentRate |-> currentRate, offerRate |-> offerRate,
              monthlySavings |-> monthly, annualSavings |-> annual,
              termSavings |-> [y \in Terms |-> Mul(annual, Int2Num(TermYears[y]))]]
buildSavings(qty, currentRate, offerRate) ==
    IF ~(Truthy(qty) /\ ~EqNull(currentRate) /\ ~EqNull(offerRate))
    THEN [unit |-> Null, monthlyQty |-> OrElse(qty, Null),
          currentRate |-> OrElse(currentRate, Zero),
          offerRate |-> OrElse(offerRate, Zero),
          monthlySavings |-> Null, annualSavings |-> Null,
          termSavings |-> [y \in Terms |-> Null]]
    ELSE LET monthly == Mul(Sub(currentRate, offerRate), qty)
             annual  == Mul(monthly, Int2Num(12))
         IN  [unit |-> Undefined, monthlyQty |-> qty,
              currentRate |-> currentRate, offerRate |-> offerRate,
              monthlySavings |-> monthly, annualSavings |-> annual,
              termSavings |-> [y \in Terms |-> Mul(annual, Int2Num(TermYears[y]))]]

----------------------------------------------------------------------------
(* part_000: computeSavings *)

computeSavings(monthlyQty, unit, currentRate, offerRate) ==
    IF ~Truthy(monthlyQty) \/ ~Truthy(currentRate) \/ ~Truthy(offerRate)
    THEN [unit |-> unit, monthlyQty |-> monthlyQty, currentRate |-> currentRate,
          offerRate |-> offerRate, ok |-> FALSE,
          monthlyAtCurrent |-> Undefined, monthlyAtOffer |-> Undefined,
          monthlySavings |-> Undefined, annualSavings |-> Undefined,
          term |-> [y \in Terms |-> Undefined]]
    ELSE LET monthlyAtCurrent == Mul(monthlyQty, currentRate)
             monthlyAtOffer   == Mul(monthlyQty, offerRate)
             monthlySavings   == Sub(monthlyAtCurrent, monthlyAtOffer)
             annualSavings    == Mul(monthlySavings, Int2Num(12))
         IN  [unit |-> unit, monthlyQty |-> monthlyQty, currentRate |-> currentRate,
              offerRate |-> offerRate, ok |-> TRUE,
              monthlyAtCurrent |-> monthlyAtCurrent, monthlyAtOffer |-> monthlyAtOffer,
              monthlySavings |-> monthlySavings, annualSavings |-> annualSavings,
              term |-> [y \in Terms |-> Mul(annualSavings, Int2Num(TermYears[y]))]]

----------------------------------------------------------------------------
(* server.js: buildAudit, the savings of the formatted audit *)

\* x ?? y
Nullish(x, y) == IF EqNull(x) THEN y ELSE x

\* rounding to whole dollars in place of cents
ToFixed2_wholeDollars(v) ==
    IF ~IsNum(v) THEN v
    ELSE Num(Sign(v) * ((2 * Abs(v.n) + v.d) \div (2 * v.d)), 1)

\* +(v).toFixed(2): the nearest multiple of 0.01, a tie going away from zero
ToFixed2(v) ==
    IF ~IsNum(v) THEN v
    ELSE Num(Sign(v) * ((200 * Abs(v.n) + v.d) \div (2 * v.d)), 100)

\* parsed?.billing_period?.days ?? null
PeriodDays(bp) == IF EqNull(bp) THEN Null ELSE Nullish(bp.days, Null)

buildAudit(parsed, pricing) ==
    LET therms == Nullish(parsed.usage.therms, Null)
        ccf    == Nullish(parsed.usage.ccf,
                          IF Truthy(therms) /\ Truthy(parsed.usage.therm_conversion_factor)
                          THEN ToFixed2(Div(therms, parsed.usage.therm_conversion_factor))
                          ELSE Null)
        monthlyVol == IF parsed.commodity = Str("gas") THEN Nullish(therms, ccf) ELSE Null
        monthlySavings ==
            IF Truthy(monthlyVol) /\ Truthy(pricing.currentRate) /\ Truthy(pricing.offeredRate)
            THEN ToFixed2(Mul(Sub(pricing.currentRate, pricing.offeredRate), monthlyVol))
            ELSE Null
        annualSavings ==
            IF ~EqNull(monthlySavings) THEN ToFixed2(Mul(monthlySavings, Int2Num(12)))
            ELSE Null
    IN  [rates   |-> [current_supplier_rate |-> Nullish(pricing.currentRate, Null),
                      offered_supplier_rate |-> Nullish(pricing.offeredRate, Null)],
         volume  |-> [commodity |-> parsed.commodity, therms |-> therms, ccf |-> ccf,
                      avg_daily_therms |-> Nullish(parsed.usage.avg_daily_therms, Null),
                      period_days |-> PeriodDays(parsed.billing_period)],
         savings |-> [monthly |-> monthlySavings, annual |-> annualSavings],
         details |-> parsed]

----------------------------------------------------------------------------
(* Conversions of form fields *)

\* s.replace(/[^\d.]/g, "")
RECURSIVE KeepDigitsDots(_)
KeepDigitsDots(s) ==
    IF s = "" THEN ""
    ELSE (IF IsDigit(Head(s)) \/ Head(s) = "." THEN Head(s) ELSE "")
         \o KeepDigitsDots(Tail(s))

\* Number(s) for a string s: white space is trimmed, the empty string is 0, a
\* decimal literal (optional sign, digits with at most one point, at least one
\* digit) is its value, anything else is NaN.  Exponents, radix prefixes and
\* "Infinity" need letters, which the fields drawn here do not contain.
StringToNumber(s) ==
    LET t    == Trim(s)
        neg  == t # "" /\ Head(t) = "-"
        body == IF t # "" /\ Head(t) \in {"+", "-"} THEN Tail(t) ELSE t
        ip   == DigitRun(body)
        rest == Drop(body, ip)
        fp   == IF rest = "" THEN 0 ELSE DigitRun(Tail(rest))
        mag  == DigitsValue(SubSeq(body, 1, ip)) * Pow10(fp)
                + DigitsValue(SubSeq(body, ip + 2, ip + 1 + fp))
    IN  IF t = "" THEN Zero
        ELSE IF ip + fp = 0 THEN NaN
        ELSE IF rest # "" /\ (Head(rest) # "." \/ Len(rest) # 1 + fp) THEN NaN
        ELSE Num(IF neg THEN -mag ELSE mag, Pow10(fp))

\* Number(v) for any value
ToNumber(v) ==
    CASE v.k = "null"  -> Zero
      [] v.k = "undef" -> NaN
      [] v.k = "str"   -> StringToNumber(v.s)
      [] v.k = "bool"  -> (IF v.b THEN Int2Num(1) ELSE Zero)
      [] OTHER         -> v

\* an absent field gets a default rate
ParseRateField_default(f) ==
    IF ~EqNull(f) /\ f # Str("")
    THEN StringToNumber(KeepDigitsDots(f.s)) ELSE Num(69, 100)
\* f != null && f !== "" ? Number(String(f).replace(/[^\d.]/g, "")) : null
ParseRateField(f) ==
    IF ~EqNull(f) /\ f # Str("")
    THEN StringToNumber(KeepDigitsDots(f.s)) ELSE Null

\* a rate field of the form: absent, or a string
RateStrings == {"", "$", ".", "2", "$.2", "2.2.2"}
RateFields == {Undefined} \cup {Str(x) : x \in RateStrings}

----------------------------------------------------------------------------
(* server.js and part_002: parseBillText *)

\* the concatenation of pieces[lo..hi]
RECURSIVE Concat(_, _, _)
Concat(pieces, lo, hi) ==
    IF lo > hi THEN ""
    ELSE IF lo = hi THEN pieces[lo]
    ELSE Concat(pieces, lo, (lo + hi) \div 2) \o Concat(pieces, (lo + hi) \div 2 + 1, hi)

\* s.replace(/\r/g, "")
RemoveCR(s) ==
    Concat([i \in 1..Len(s) |-> IF CharAt(s, i) = "\r" THEN "" ELSE CharAt(s, i)],
           1, Len(s))

\* s.replace(/[ \t]+/g, " "): of a run of blanks the last one stays, as a space
CollapseBlanks(s) ==
    Concat([i \in 1..Len(s) |->
               IF CharAt(s, i) \in {" ", "\t"}
               THEN (IF i < Len(s) /\ CharAt(s, i + 1) \in {" ", "\t"} THEN "" ELSE " ")
               ELSE CharAt(s, i)],
           1, Len(s))

\* the first position from p on, in direction dir, that holds no space
\* (0 or Len(s) + 1 when there is none)
RECURSIVE DropSpaces(_, _, _)
DropSpaces(s, p, dir) ==
    IF p >= 1 /\ p <= Len(s) /\ CharAt(s, p) = " " THEN DropSpaces(s, p + dir, dir) ELSE p

\* the character at p is a newline
NewlineAt(s, p) == p >= 1 /\ p <= Len(s) /\ CharAt(s, p) = "\n"

\* s.replace(/ *\n */g, "\n"): the spaces next to a newline go
TightenNewlines(s) ==
    Concat([i \in 1..Len(s) |->
               IF CharAt(s, i) = " "
                  /\ (NewlineAt(s, DropSpaces(s, i, 1)) \/ NewlineAt(s, DropSpaces(s, i, -1)))
               THEN "" ELSE CharAt(s, i)],
           1, Len(s))

\* /\bCon\s*Edison|ConEd|Consolidated\s+Edison/i, one pattern per alternative
RxConEdison == <<[ci |-> TRUE, n |-> <<WordB, Lit("Con"), Spaces0, Lit("Edison")>>],
                 [ci |-> TRUE, n |-> <<Lit("ConEd")>>],
                 [ci |-> TRUE, n |-> <<Lit("Consolidated"), Spaces1, Lit("Edison")>>]>>
\* /\bSCE\b|Southern California Edison/i
RxSceName == <<[ci |-> TRUE, n |-> <<WordB, Lit("SCE"), WordB>>],
               [ci |-> TRUE, n |-> <<Lit("Southern California Edison")>>]>>

\* getMatch(re, s) for a regex re = alts[1] | alts[2] | ... without a capture
\* group: null without a match; with one, m[1] is undefined and
\* m[1].trim() throws
getMatch(alts, s) ==
    IF \E k \in 1..Len(alts) : RxTest(alts[k], s) THEN Thrown ELSE Null

\* getMatch(a, text) ? yes : orElse, a throw passing through
IfMatch(m, yes, orElse) ==
    IF m = Thrown THEN Thrown ELSE IF Truthy(m) THEN yes ELSE orElse

\* /gas/i.test(text) ? 'gas' : (/electric/i.test(text) ? 'electric' : null),
\* then commodity || 'gas'
Commodity(norm) ==
    IF ITest(norm, "gas") THEN Str("gas")
    ELSE IF ITest(norm, "electric") THEN Str("electric")
    ELSE Str("gas")

\* s.replace(/\s+/g, " ")
RECURSIVE CollapseSpace(_)
CollapseSpace(s) ==
    IF s = "" THEN ""
    ELSE IF IsSpace(Head(s))
         THEN (IF Tail(s) # "" /\ IsSpace(Head(Tail(s))) THEN "" ELSE " ")
              \o CollapseSpace(Tail(s))
    ELSE Head(s) \o CollapseSpace(Tail(s))

\* getMatch(re, s) for a regex whose group 1 takes part in every match:
\* m ? m[1].trim().replace(/\s+/g, " ") : null
GroupMatch(s, m) ==
    IF m.ok THEN Str(CollapseSpace(Trim(Group(s, m, 1)))) ELSE Null

\* numberFrom(s)
numberFrom(v) ==
    IF ~Truthy(v) THEN Null
    ELSE IF IsNum(StringToNumber(KeepDigitsDots(v.s)))
         THEN StringToNumber(KeepDigitsDots(v.s)) ELSE Null

\* /Total usage in ccf\s+(\d+(?:\.\d+)?)/i
RxBillCcf == [ci |-> TRUE, n |-> <<Lit("Total usage in ccf"), Spaces1,
    Open(1), Rep("d", 1, -1), OptFrac, Close(1)>>]
\* /Therm conversion factor\s+(\d+(?:\.\d+)?)/i
RxBillConv == [ci |-> TRUE, n |-> <<Lit("Therm conversion factor"), Spaces1,
    Open(1), Rep("d", 1, -1), OptFrac, Close(1)>>]
\* /Total (?:Gas )?Use\s+(\d+(?:\.\d+)?)\s*therms?/i
RxBillTherms == [ci |-> TRUE, n |-> <<Lit("Total "), Opt("Gas "), Lit("Use"), Spaces1,
    Open(1), Rep("d", 1, -1), OptFrac, Close(1), Spaces0, Lit("therm"), Opt("s")>>]

\* if (!therms && ccf && conv) therms = +(ccf * conv).toFixed(2);
DerivedTherms(therms, ccf, conv) ==
    IF ~Truthy(therms) /\ Truthy(ccf) /\ Truthy(conv)
    THEN ToFixed2(Mul(ccf, conv)) ELSE therms

\* usage: { ccf, therms, therm_conversion_factor } of the record;
\* avg_daily_therms is left out
BillUsage(therms, ccf, conv) ==
    [ccf |-> ccf, therms |-> DerivedTherms(therms, ccf, conv),
     therm_conversion_factor |-> conv]

\* the utility, the usage and the commodity of the record parseBillText of
\* server.js returns for the normalised text; the account, address, period,
\* total and charges come from getMatch calls on patterns with a first group
\* and are left out
BillRecord(utility, norm) ==
    IF utility = Thrown THEN Thrown
    ELSE [utility |-> utility,
          usage |-> BillUsage(numberFrom(GroupMatch(norm, RxSearch(RxBillTherms, norm, 1))),
                              numberFrom(GroupMatch(norm, RxSearch(RxBillCcf, norm, 1))),
                              numberFrom(GroupMatch(norm, RxSearch(RxBillConv, norm, 1)))),
          commodity |-> Commodity(norm)]

parseBillText(textRaw) ==
    BillRecord(IfMatch(getMatch(RxConEdison, TightenNewlines(CollapseBlanks(RemoveCR(textRaw)))),
                       Str("coned"),
                       IfMatch(getMatch(RxSceName, TightenNewlines(CollapseBlanks(RemoveCR(textRaw)))),
                               Str("sce"), Null)),
               TightenNewlines(CollapseBlanks(RemoveCR(textRaw))))

\* part_002: /(Con\s?Edison|ConEd|National Grid|...|SoCalGas)/i; after the
\* normalisation \s? is nothing, a space or a line feed
Rx2Utility == [ci |-> TRUE, n |-> <<Open(1),
    Alt(<<"ConEdison", "Con Edison", "Con\nEdison", "ConEd", "National Grid", "PSE&G",
          "PG&E", "SCE", "SDG&E", "ComEd", "CenterPoint", "DTE", "PECO",
          "Duke Energy", "FPL", "SoCalGas">>), Close(1)>>]
\* /([0-9,]+(?:\.\d+)?)\s*kwh\b/i
Rx2Kwh == [ci |-> TRUE, n |-> <<Open(1), Rep("numc", 1, -1), OptFrac, Close(1),
    Spaces0, Lit("kwh"), WordB>>]
\* /Total\s*(?:Electric)?\s*(?:Use|Usage)\s*([0-9,]+(?:\.\d+)?)\s*kwh/i
Rx2KwhTotal == [ci |-> TRUE, n |-> <<Lit("Total"), Spaces0, Opt("Electric"), Spaces0,
    Alt(<<"Use", "Usage">>), Spaces0, Open(1), Rep("numc", 1, -1), OptFrac, Close(1),
    Spaces0, Lit("kwh")>>]
\* /([0-9,]+(?:\.\d+)?)\s*therms?\b/i
Rx2Therms == [ci |-> TRUE, n |-> <<Open(1), Rep("numc", 1, -1), OptFrac, Close(1),
    Spaces0, Lit("therm"), Opt("s"), WordB>>]
\* /Total\s*Gas\s*Use\s*([0-9,]+(?:\.\d+)?)\s*therms?/i
Rx2ThermsTotal == [ci |-> TRUE, n |-> <<Lit("Total"), Spaces0, Lit("Gas"), Spaces0,
    Lit("Use"), Spaces0, Open(1), Rep("numc", 1, -1), OptFrac, Close(1),
    Spaces0, Lit("therm"), Opt("s")>>]
\* /([0-9,]+(?:\.\d+)?)\s*ccf\b/i
Rx2Ccf == [ci |-> TRUE, n |-> <<Open(1), Rep("numc", 1, -1), OptFrac, Close(1),
    Spaces0, Lit("ccf"), WordB>>]

\* pick(arr): m.groups?.v || m[1] of the first pattern that matches, else null
RECURSIVE Pick(_, _, _)
Pick(arr, t, i) ==
    IF i > Len(arr) THEN Null
    ELSE IF RxTest(arr[i], t) THEN Str(Group(t, RxSearch(arr[i], t, 1), 1))
    ELSE Pick(arr, t, i + 1)

\* num(s): s != null ? Number(String(s).replace(/,/g, "")) : null
NumOf(m) == IF EqNull(m) THEN Null ELSE StringToNumber(DropCommas(m.s))

\* commodity, monthly_usage and unit from the usage record
\* without a quantity the unit is null
Selection2_nullUnit(usage) ==
    IF ~EqNull(usage.kwh)
    THEN [commodity |-> Str("electric"), monthly_usage |-> usage.kwh, unit |-> Str("kWh")]
    ELSE IF ~EqNull(usage.therms)
    THEN [commodity |-> Str("gas"), monthly_usage |-> usage.therms, unit |-> Str("therms")]
    ELSE IF ~EqNull(usage.ccf)
    THEN [commodity |-> Str("gas"), monthly_usage |-> usage.ccf, unit |-> Str("ccf")]
    ELSE [commodity |-> Null, monthly_usage |-> Null, unit |-> Null]
Selection2(usage) ==
    IF ~EqNull(usage.kwh)
    THEN [commodity |-> Str("electric"), monthly_usage |-> usage.kwh, unit |-> Str("kWh")]
    ELSE IF ~EqNull(usage.therms)
    THEN [commodity |-> Str("gas"), monthly_usage |-> usage.therms, unit |-> Str("therms")]
    ELSE IF ~EqNull(usage.ccf)
    THEN [commodity |-> Str("gas"), monthly_usage |-> usage.ccf, unit |-> Str("ccf")]
    ELSE [commodity |-> Null, monthly_usage |-> Null, unit |-> Str("units")]

\* { ...result, commodity, monthly_usage, unit }; customer, account,
\* service_address, billing_period, total_due and charges are left out
Info2(utility, usage, sel) ==
    [utility |-> utility, usage |-> usage, commodity |-> sel.commodity,
     monthly_usage |-> sel.monthly_usage, unit |-> sel.unit]

Usage2(norm) ==
    [kwh    |-> NumOf(Pick(<<Rx2Kwh, Rx2KwhTotal>>, norm, 1)),
     therms |-> NumOf(Pick(<<Rx2Therms, Rx2ThermsTotal>>, norm, 1)),
     ccf    |-> NumOf(Pick(<<Rx2Ccf>>, norm, 1))]

\* parseBillText of part_002 on the normalised text
ParseNormalised2(norm) ==
    Info2(Pick(<<Rx2Utility>>, norm, 1), Usage2(norm), Selection2(Usage2(norm)))

parseBillText2(raw) == ParseNormalised2(Trim(CollapseBlanks(RemoveCR(raw))))

----------------------------------------------------------------------------
(* part_005: extraction of usage and incumbent rates, matrix offers *)

\* function firstMatch(text, regex, group = 1): (m[group] || m[0]).trim()
firstMatch5(t, pat, g) ==
    LET m == RxSearch(pat, t, 1)
    IN  IF ~m.ok THEN Null
        ELSE IF Group(t, m, g) # "" THEN Str(Trim(Group(t, m, g)))
        ELSE Str(Trim(SubSeq(t, m.start, m.end - 1)))

\* parseFloat(v): the longest decimal prefix of String(v) after leading white
\* space, NaN when there is none (String(null) is "null")
ParseFloat(v) ==
    LET t    == IF v.k = "str" THEN TrimLeft(v.s) ELSE "null"
        neg  == t # "" /\ Head(t) = "-"
        body == IF t # "" /\ Head(t) \in {"+", "-"} THEN Tail(t) ELSE t
        ip   == DigitRun(body)
        rest == Drop(body, ip)
        fp   == IF rest # "" /\ Head(rest) = "." THEN DigitRun(Tail(rest)) ELSE 0
        mag  == DigitsValue(SubSeq(body, 1, ip)) * Pow10(fp)
                + DigitsValue(SubSeq(body, ip + 2, ip + 1 + fp))
    IN  IF ip + fp = 0 THEN NaN ELSE Num(IF neg THEN -mag ELSE mag, Pow10(fp))

\* Math.round on a finite number: the nearest integer, ties upwards
MathRound(v) == Int2Num((2 * v.n + v.d) \div (2 * v.d))

\* the global isFinite(v): Number(v) is a finite number
IsFiniteJS(v) == IsFiniteNum(ToNumber(v))

\* /Total\s+Usage\s*\(?kWh\)?[:\s]+([\d,]*\.?\d*)/i
RxKwhTotal5 == [ci |-> TRUE, n |-> <<Lit("Total"), Spaces1, Lit("Usage"), Spaces0,
    Opt("("), Lit("kWh"), Opt(")"), Rep("colsp", 1, -1),
    Open(1), Rep("numc", 0, -1), Opt("."), Rep("d", 0, -1), Close(1)>>]
\* /([\d,]*\.?\d*)\s*kWh(?!\/)/i
RxKwh5 == [ci |-> TRUE, n |-> <<Open(1), Rep("numc", 0, -1), Opt("."),
    Rep("d", 0, -1), Close(1), Spaces0, Lit("kWh"), NotAhead("/")>>]
\* /kWh\s*@\s*([\d.]+)\s*¢/i
RxERateAt5 == [ci |-> TRUE, n |-> <<Lit("kWh"), Spaces0, Lit("@"), Spaces0,
    Open(1), Rep("numd", 1, -1), Close(1), Spaces0, Lit("¢")>>]
\* /¢\s*\/\s*kWh[^0-9]*([\d.]+)/i
RxERatePer5 == [ci |-> TRUE, n |-> <<Lit("¢"), Spaces0, Lit("/"), Spaces0,
    Lit("kWh"), Rep("nondig", 0, -1), Open(1), Rep("numd", 1, -1), Close(1)>>]
\* /Total\s+Gas\s+Use\s*([\d,]*\.?\d*)\s*therms?/i
RxThermsTotal5 == [ci |-> TRUE, n |-> <<Lit("Total"), Spaces1, Lit("Gas"), Spaces1,
    Lit("Use"), Spaces0, Open(1), Rep("numc", 0, -1), Opt("."), Rep("d", 0, -1),
    Close(1), Spaces0, Lit("therm"), Opt("s")>>]
\* /([\d,]*\.?\d*)\s*therms(?!\/)/i
RxTherms5 == [ci |-> TRUE, n |-> <<Open(1), Rep("numc", 0, -1), Opt("."),
    Rep("d", 0, -1), Close(1), Spaces0, Lit("therms"), NotAhead("/")>>]
\* /total gas supply cost[^]*?is\s*([\d.]+)\s*¢/i
RxGasCents5 == [ci |-> TRUE, n |-> <<Lit("total gas supply cost"), Lazy("all", 0, -1),
    Lit("is"), Spaces0, Open(1), Rep("numd", 1, -1), Close(1), Spaces0, Lit("¢")>>]
\* /@\s*([\d.]+)\s*\/\s*(therm|ccf)/i
RxGasRateAt5 == [ci |-> TRUE, n |-> <<Lit("@"), Spaces0, Open(1), Rep("numd", 1, -1),
    Close(1), Spaces0, Lit("/"), Spaces0, Open(2), Alt(<<"therm", "ccf">>), Close(2)>>]

\* (firstMatch(...) || "").replace(/,/g, "")
NoCommas(m) == Str(DropCommas(OrElse(m, Str("")).s))

\* isFinite(v) ? Math.round(v) : null
RoundOrNull(v) == IF IsFiniteNum(v) THEN MathRound(v) ELSE Null
\* isFinite(v) ? v / 100 : null
HundredthOrNull(v) == IF IsFiniteNum(v) THEN Div(v, Int2Num(100)) ELSE Null
\* isFinite(v) ? v : null
FiniteOrNull(v) == IF IsFiniteNum(v) THEN v ELSE Null
\* if (!isNaN(centsLine)) gRateDollar = centsLine / 100; else gRateDollar = ...
CentsOr(centsLine, other) ==
    IF ~IsNaN(centsLine) THEN Div(centsLine, Int2Num(100)) ELSE other

parseUsageAndRates(t) ==
    [electricity_kwh |->
         RoundOrNull(OrElse(ParseFloat(firstMatch5(t, RxKwhTotal5, 1)),
                            ParseFloat(NoCommas(firstMatch5(t, RxKwh5, 1))))),
     incumbent_electric_rate |->
         HundredthOrNull(OrElse(ParseFloat(firstMatch5(t, RxERateAt5, 1)),
                                ParseFloat(firstMatch5(t, RxERatePer5, 1)))),
     gas_therms |->
         RoundOrNull(OrElse(ParseFloat(NoCommas(firstMatch5(t, RxThermsTotal5, 1))),
                            ParseFloat(NoCommas(firstMatch5(t, RxTherms5, 1))))),
     incumbent_gas_rate |->
         FiniteOrNull(CentsOr(ParseFloat(firstMatch5(t, RxGasCents5, 1)),
                              ParseFloat(firstMatch5(t, RxGasRateAt5, 1))))]

normalizeUtilityName(raw) ==
    LET s == ToLower(raw)
        has(x) == Includes(s, x)
    IN  IF has("con") /\ has("ed") THEN Str("Con Edison")
        ELSE IF has("ameren") THEN Str("Ameren")
        ELSE IF has("com ed") \/ has("comed") THEN Str("COMED")
        ELSE IF has("national grid") THEN Str("National Grid (Massachusetts Electric)")
        ELSE IF has("eversource") /\ (has("western") \/ has("wmeco"))
             THEN Str("Eversource (Western Massachusetts Electric Company)")
        ELSE IF has("eversource") /\ (has("nstar") \/ has("boston"))
             THEN Str("Eversource (Formerly Boston Edison - NSTAR)")
        ELSE IF has("eversource") /\ has("psnh") THEN Str("Eversource (Formerly PSNH)")
        ELSE IF has("pseg") \/ has("pse&g") THEN Str("PSEG")
        ELSE IF has("baltimore gas") \/ has("bge") THEN Str("Baltimore Gas and Electric")
        ELSE IF has("delmarva") THEN Str("Delmarva Power & Light")
        ELSE IF has("toledo edison") THEN Str("Toledo Edison")
        ELSE IF has("aep ohio") THEN Str("AEP Ohio (Columbus Southern)")
        ELSE IF has("duquesne") THEN Str("Duquesne Light")
        ELSE IF has("met-ed") \/ has("meted") THEN Str("METED")
        ELSE IF has("penelec") \/ has("pennelec") THEN Str("PENELEC")
        ELSE IF has("peco") THEN Str("PECO")
        ELSE IF has("ppl") THEN Str("PPL")
        ELSE IF has("pennpower") THEN Str("PennPower")
        ELSE IF has("west penn") THEN Str("West Penn Power")
        ELSE IF has("unitil") THEN Str("Unitil")
        ELSE IF has("jersey central") \/ has("jcp&l")
             THEN Str("Jersey Central Power & Light")
        ELSE IF has("rockland") THEN Str("Rockland Electric Co")
        ELSE Null

\* /^([A-Z][A-Za-z&.\s]{3,60})\s+(Bill|Invoice|Statement)/m
RxUtilityLine5 == [ci |-> FALSE, n |-> <<Bol, Open(1), Rep("upper", 1, 1),
    Rep("name", 3, 60), Close(1), Spaces1,
    Open(2), Alt(<<"Bill", "Invoice", "Statement">>), Close(2)>>]

guessUtility5(t) ==
    OrElse(normalizeUtilityName(t),
           OrElse(firstMatch5(t, RxUtilityLine5, 1), Str("Unknown Utility")))

\* the record auditFromText returns, usageRates being parseUsageAndRates(text)
AuditRecord5(utility, totals, usageRates) ==
    [utility |-> utility,
     totals  |-> totals,
     usage   |-> [electricity_kwh |-> usageRates.electricity_kwh,
                  gas_therms      |-> usageRates.gas_therms],
     rates_detected |->
         [incumbent_electric_rate_usd_per_kwh |-> usageRates.incumbent_electric_rate,
          incumbent_gas_rate_usd_per_therm    |-> usageRates.incumbent_gas_rate]]

auditFromText5(t) ==
    AuditRecord5(guessUtility5(t),
                 [total_due        |-> findMoney(t, TotalDueLabels),
                  delivery_charges |-> findMoney(t, DeliveryLabels),
                  supply_charges   |-> findMoney(t, SupplyLabels),
                  taxes            |-> findMoney(t, TaxLabels)],
                 parseUsageAndRates(t))

\* a row of the matrix: state, utility, zone, rateClass, effective, termMonths,
\* matrixCents and ptcCents (in thousandths of a cent)
Row(st, u, z, rc, eff, tm, mc, ptc) ==
    [k |-> "obj", state |-> st, utility |-> u, zone |-> z, rateClass |-> rc, effective |-> eff,
     termMonths |-> tm, matrixCents |-> Num(mc, 1000), ptcCents |-> Num(ptc, 1000)]

MATRIX == <<
    Row("CT", "Eversource (Connecticut Light Power)", "30", "", "10/2025", 60, 10407, 11190),
    Row("DE", "Delmarva Power & Light", "", "GS", "09/2025", 6, 9035, 10520),
    Row("IL", "Ameren", "1", "DS2", "10/2025", 6, 7772, 12180),
    Row("IL", "Ameren", "2", "DS2", "11/2025", 6, 8008, 12180),
    Row("IL", "Ameren", "3", "DS2", "10/2025", 6, 8170, 12180),
    Row("IL", "COMED", "0-100", "", "11/2025", 6, 8566, 10028),
    Row("MA", "Eversource (Formerly Boston Edison - NSTAR)", "NEMA", "G1", "09/2025", 48, 12104, 15150),
    Row("MA", "Eversource (Formerly Boston Edison - NSTAR)", "SEMA", "G1", "09/2025", 48, 12155, 15150),
    Row("MA", "Eversource (Western Massachusetts Electric Company)", "WCMA", "G2", "09/2025", 48, 11924, 13400),
    Row("MA", "National Grid (Massachusetts Electric)", "WCMA", "G1", "09/2025", 24, 12556, 14411),
    Row("MA", "National Grid (Massachusetts Electric)", "SEMA", "G1", "09/2025", 24, 12612, 14411),
    Row("MA", "National Grid (Massachusetts Electric)", "NEMA", "G1", "09/2025", 24, 12650, 14411),
    Row("MA", "Unitil", "WCMA", "G2", "10/2025", 36, 12284, 13550),
    Row("MD", "Baltimore Gas and Electric", "", "G", "09/2025", 6, 11437, 12021),
    Row("MD", "Delmarva Power & Light", "", "GS", "10/2025", 6, 10720, 11880),
    Row("MD", "Potomac Edison/Allegany Power", "", "GS-TypeI", "09/2025", 9, 10019, 11320),
    Row("NH", "Eversource (Formerly PSNH)", "", "G", "09/2025", 24, 10226, 13240),
    Row("NJ", "Jersey Central Power & Light", "", "GS1", "09/2025", 12, 11327, 11330),
    Row("NJ", "PSEG", "", "GLP", "11/2025", 6, 13207, 15786),
    Row("NJ", "Rockland Electric Co", "", "SGS-S-ND", "09/2025", 48, 10932, 14762),
    Row("OH", "AEP Ohio (Columbus Southern)", "", "GS2", "09/2025", 9, 7854, 10523),
    Row("OH", "Toledo Edison", "", "GS", "09/2025", 9, 8274, 9770),
    Row("PA", "Duquesne Light", "", "GM", "09/2025", 12, 10112, 10250),
    Row("PA", "METED", "", "GSS", "11/2025", 48, 9800, 11576),
    Row("PA", "PECO", "", "GS", "10/2025", 60, 8634, 9380),
    Row("PA", "PENELEC", "", "GSS", "10/2025", 6, 10272, 11000),
    Row("PA", "PPL", "", "GS1", "09/2025", 10, 10443, 12114),
    Row("PA", "PennPower", "", "GS", "11/2025", 54, 10973, 12720),
    Row("PA", "West Penn Power", "", "GS20D", "10/2025", 6, 9063, 10537) >>

\* MATRIX.filter(r => ...) from row i on
RECURSIVE FilterRows(_, _, _)
FilterRows(rows, canon, i) ==
    IF i > Len(rows) THEN <<>>
    ELSE (IF \/ Includes(ToLower(rows[i].utility), ToLower(canon))
             \/ Includes(ToLower(canon), ToLower(rows[i].utility))
          THEN <<rows[i]>> ELSE <<>>) \o FilterRows(rows, canon, i + 1)

\* r put into the sorted sequence rs after the rows that are not dearer
RECURSIVE InsertRow(_, _)
InsertRow(rs, r) ==
    IF rs = <<>> THEN <<r>>
    ELSE IF Gt(Head(rs).matrixCents, r.matrixCents) THEN <<r>> \o rs
    ELSE <<Head(rs)>> \o InsertRow(Tail(rs), r)

\* matches.sort((a,b) => a.matrixCents - b.matrixCents): a stable sort
RECURSIVE SortByCents(_)
SortByCents(rs) ==
    IF rs = <<>> THEN <<>>
    ELSE InsertRow(SortByCents(SubSeq(rs, 1, Len(rs) - 1)), rs[Len(rs)])

\* pickMatrixOffer(utilityName) when the module-level table holds rows
\* the first matching row in table order is returned
PickFrom_firstMatch(rows, utilityName) ==
    IF ~Truthy(utilityName) THEN Null
    ELSE LET canon   == OrElse(normalizeUtilityName(utilityName.s), utilityName).s
             matches == FilterRows(rows, canon, 1)
         IN  IF Len(matches) = 0 THEN Null ELSE Head(matches)
PickFrom(rows, utilityName) ==
    IF ~Truthy(utilityName) THEN Null
    ELSE LET canon   == OrElse(normalizeUtilityName(utilityName.s), utilityName).s
             matches == FilterRows(rows, canon, 1)
         IN  IF Len(matches) = 0 THEN Null ELSE Head(SortByCents(matches))

pickMatrixOffer(utilityName) == PickFrom(MATRIX, utilityName)

\* the table itself is sorted
MatrixAfterPick_sortsInPlace(rows, utilityName) ==
    IF ~Truthy(utilityName) THEN rows ELSE SortByCents(rows)
\* the module-level table after a call of pickMatrixOffer: filter returns a
\* new array, and it is that array which sort reorders
MatrixAfterPick(rows, utilityName) == rows

computeElectricSavings(kwh, incumbentRateUsdPerKwh, offerCentsPerKwh) ==
    IF ~IsFiniteJS(kwh) \/ ~IsFiniteJS(incumbentRateUsdPerKwh)
       \/ ~IsFiniteJS(offerCentsPerKwh)
    THEN Null
    ELSE LET offer       == Div(offerCentsPerKwh, Int2Num(100))
             monthly_inc == Mul(kwh, incumbentRateUsdPerKwh)
             monthly_off == Mul(kwh, offer)
             monthly_sav == Sub(monthly_inc, monthly_off)
         IN  [k |-> "obj", unit |-> Str("kWh"), monthly_usage |-> kwh,
              current_rate |-> incumbentRateUsdPerKwh, offer_rate |-> offer,
              monthly_savings |-> monthly_sav,
              annual_savings |-> Mul(monthly_sav, Int2Num(12)),
              term_savings |-> [y \in Terms |->
                  Mul(Mul(monthly_sav, Int2Num(12)), Int2Num(TermYears[y]))]]

----------------------------------------------------------------------------
(* The savings calculators applied to drawn inputs *)

CalcQtys  == {Null} \cup {Int2Num(61 * i) : i \in 0..MaxQty}
CalcRates == {Null, NaN, Num(120, 100), Num(1234, 10000)}
             \cup {Num(23 * i, 100) : i \in 0..MaxRate}
CalcUnits == {Str("kWh"), Str("therms"), Str("ccf")}

IdleCalc == cpc = "idle" /\ cin = Undefined /\ cout = Undefined

InitCalc ==
    /\ cpc = "call"
    /\ cin \in [qty : CalcQtys, unit : CalcUnits,
                currentRate : CalcRates, offerRate : CalcRates]
    /\ cout = [bs |-> Undefined, cs |-> Undefined, ba |-> Undefined]

CalcPc(out) ==
    IF out.bs # Undefined /\ out.cs # Undefined /\ out.ba # Undefined
    THEN "done" ELSE "call"

\* a parsed bill carrying the quantity q in the unit u, as buildAudit reads it
ParsedOf(q, u) ==
    [usage |-> [therms |-> IF u = Str("ccf") THEN Null ELSE q,
                ccf    |-> IF u = Str("ccf") THEN q ELSE Null,
                avg_daily_therms |-> Null, therm_conversion_factor |-> Null],
     commodity |-> IF u = Str("kWh") THEN Str("electric") ELSE Str("gas"),
     billing_period |-> Null]

PricingOf(currentRate, offerRate) ==
    [currentRate |-> currentRate, offeredRate |-> offerRate]

CallBuildSavings ==
    /\ cpc = "call" /\ cout.bs = Undefined
    /\ cout' = [cout EXCEPT !.bs = buildSavings(cin.qty, cin.currentRate, cin.offerRate)]
    /\ cpc' = CalcPc(cout')
    /\ UNCHANGED <<cin, varsMoney, varsSrv, varsAuto,
                   varsMore>>

CallComputeSavings ==
    /\ cpc = "call" /\ cout.cs = Undefined
    /\ cout' = [cout EXCEPT !.cs =
                   computeSavings(cin.qty, cin.unit, cin.currentRate, cin.offerRate)]
    /\ cpc' = CalcPc(cout')
    /\ UNCHANGED <<cin, varsMoney, varsSrv, varsAuto,
                   varsMore>>

CallBuildAudit ==
    /\ cpc = "call" /\ cout.ba = Undefined
    /\ cout' = [cout EXCEPT !.ba =
                   buildAudit(ParsedOf(cin.qty, cin.unit),
                              PricingOf(cin.currentRate, cin.offerRate))]
    /\ cpc' = CalcPc(cout')
    /\ UNCHANGED <<cin, varsMoney, varsSrv, varsAuto,
                   varsMore>>

----------------------------------------------------------------------------
(* findMoney applied to drawn documents *)

IdleMoney == mpc = "idle" /\ mtext = "" /\ mlabels = <<>> /\ mout = Undefined

InitMoney ==
    /\ mpc = "call"
    /\ mtext \in MoneyTexts
    /\ mlabels \in LabelLists
    /\ mout = Undefined

CallFindMoney ==
    /\ mpc = "call"
    /\ mout' = findMoney(mtext, mlabels)
    /\ mpc' = "done"
    /\ UNCHANGED <<mtext, mlabels, varsCalc, varsSrv, varsAuto,
                   varsMore>>

----------------------------------------------------------------------------
(* server.js: POST /proposal *)

\* /\.pdf$/i
RxPdfName == [ci |-> TRUE, n |-> <<Lit(".pdf"), Eos>>]

FileNames == {"bill.PDF", "bill.txt"}
Formats   == {Undefined, Str("PDF"), Str("json")}
BillVocab == {" \t", "Supply charges $0.00", "Amount due $61.00", "412 kWh",
              "Total Gas Use 122 therms 119 ccf", "00 kWh"}
BillTexts == TextsOf(BillVocab, MaxBillLines)

\* auditFromText on the drawn bills, computed once
AuditOf == [t \in BillTexts |-> auditFromText(t)]

Requests == [hasFile : BOOLEAN, name : FileNames, offer_rate : RateFields,
             current_rate : RateFields, format : Formats]

NoRes == [status |-> 0, kind |-> "none", body |-> Undefined]
JsonRes(st, b) == [status |-> st, kind |-> "json", body |-> b]

\* JSON.stringify of a number: NaN and the infinities become null
JsonNum(v) == IF v.k \in {"nan", "inf"} THEN Null ELSE v

JsonSavings(sv) ==
    [unit |-> sv.unit, monthlyQty |-> JsonNum(sv.monthlyQty),
     currentRate |-> JsonNum(sv.currentRate), offerRate |-> JsonNum(sv.offerRate),
     monthlySavings |-> JsonNum(sv.monthlySavings),
     annualSavings |-> JsonNum(sv.annualSavings),
     termSavings |-> [y \in Terms |-> JsonNum(sv.termSavings[y])]]

\* the format is compared without lower-casing
WantPdf_caseSensitive(r) == OrElse(r.format, Str("")).s = "pdf"
\* String(req.body.format || "").toLowerCase() === "pdf"
WantPdf(r) == ToLower(OrElse(r.format, Str("")).s) = "pdf"

\* the locals of the handler: the offer rate, the current rate as supplied,
\* the current rate after inference, the selected quantity and unit
HandlerLocals(r, a) ==
    LET offerRate == ParseRateField(r.offer_rate)
        supplied  == ParseRateField(r.current_rate)
    IN  [offerRate |-> offerRate, supplied |-> supplied,
         currentRate |-> IF EqNull(supplied) THEN inferCurrentRate(a) ELSE supplied,
         qty |-> inferMonthlyQtyAndUnit(a).qty,
         unit |-> inferMonthlyQtyAndUnit(a).unit]

\* buildSavings({ qty, currentRate, offerRate })
SavingsOf(l) == buildSavings(l.qty, l.currentRate, l.offerRate)

HandlerSavings(r, a) == SavingsOf(HandlerLocals(r, a))

\* res.json({ ok: true, proposal, audit })
ProposalJson(p, a) ==
    JsonRes(200, [ok |-> TRUE,
                  proposal |-> [unit |-> p.unit, savings |-> JsonSavings(p.savings)],
                  audit |-> a])

\* the PDF sent by sendProposalPdf
ProposalPdf(p) == [status |-> 200, kind |-> "pdf", body |-> p]

IdleSrv ==
    /\ pc = "idle" /\ req = Undefined /\ text = "" /\ audit = Undefined
    /\ locals = Undefined /\ savings = Undefined /\ proposal = Undefined
    /\ res = NoRes

\* the request arrives; the checks before await pdfParse(file.data)
Receive ==
    /\ pc = "idle"
    /\ \E r \in Requests :
        /\ req' = r
        /\ IF ~r.hasFile
           THEN /\ res' = JsonRes(400, [error |-> "No file uploaded. Field name must be 'bill'."])
                /\ pc' = "done"
           ELSE IF ~RxSearch(RxPdfName, r.name, 1).ok
           THEN /\ res' = JsonRes(400, [error |-> "Please upload a PDF file."])
                /\ pc' = "done"
           ELSE /\ res' = NoRes
                /\ pc' = "parsing"
    /\ UNCHANGED <<text, audit, locals, savings, proposal, varsCalc, varsMoney, varsAuto,
                   varsMore>>

\* pdfParse resolves with the text t (undefined: no text property)
Parsed ==
    /\ pc = "parsing"
    /\ \E t \in {Str(x) : x \in BillTexts} \cup {Undefined} :
        /\ text' = OrElse(t, Str("")).s
        /\ IF Trim(text') = ""
           THEN /\ res' = JsonRes(422, [error |-> "Could not extract text from PDF."])
                /\ pc' = "done"
                /\ UNCHANGED <<audit, locals, savings, proposal>>
           ELSE /\ audit' = AuditOf[text']
                /\ locals' = HandlerLocals(req, audit')
                /\ savings' = SavingsOf(locals')
                /\ proposal' = [unit |-> locals'.unit, savings |-> savings']
                /\ IF WantPdf(req)
                   THEN res' = NoRes /\ pc' = "pdf"
                   ELSE /\ res' = ProposalJson(proposal', audit')
                        /\ pc' = "done"
    /\ UNCHANGED <<req, varsCalc, varsMoney, varsAuto,
                   varsMore>>

\* pdfParse rejects, or anything else throws: the catch block
ParseFails ==
    /\ pc = "parsing"
    /\ res' = JsonRes(500, [error |-> "Server error"])
    /\ pc' = "done"
    /\ UNCHANGED <<req, text, audit, locals, savings, proposal,
                   varsCalc, varsMoney, varsAuto,
                   varsMore>>

\* the PDF document ends: sendProposalPdf sends the buffer
PdfEnd ==
    /\ pc = "pdf"
    /\ res' = ProposalPdf(proposal)
    /\ pc' = "done"
    /\ UNCHANGED <<req, text, audit, locals, savings, proposal,
                   varsCalc, varsMoney, varsAuto,
                   varsMore>>

\* the PDF document emits an error: the promise rejects, the catch block answers
PdfError ==
    /\ pc = "pdf"
    /\ res' = JsonRes(500, [error |-> "Server error"])
    /\ pc' = "done"
    /\ UNCHANGED <<req, text, audit, locals, savings, proposal,
                   varsCalc, varsMoney, varsAuto,
                   varsMore>>

----------------------------------------------------------------------------
(* part_005: POST /proposal *)

AutoVocab == {"PECO Statement", "Ameren Illinois Bill", "Acme Power Bill",
              "412 kWh @ 11.5 ¢", "Energy used 1,650.6 kWh"}
AutoTexts == TextsOf(AutoVocab, MaxBillLines)

\* auditFromText of part_005 on the drawn bills, computed once
AuditOf5 == [t \in {Trim(x) : x \in AutoTexts} |-> auditFromText5(t)]

AutoRequests == [hasFile : BOOLEAN, name : FileNames, format : Formats]

IdleAuto ==
    /\ pdfkit = FALSE /\ apc = "idle" /\ areq = Undefined /\ atext = ""
    /\ aaudit = Undefined /\ apicked = Undefined /\ asavings = Undefined
    /\ ares = NoRes

InitAuto ==
    /\ pdfkit \in BOOLEAN  \* whether require("pdfkit") succeeded at start
    /\ apc = "idle" /\ areq = Undefined /\ atext = ""
    /\ aaudit = Undefined /\ apicked = Undefined /\ asavings = Undefined
    /\ ares = NoRes

AutoReceive ==
    /\ apc = "idle"
    /\ \E r \in AutoRequests :
        /\ areq' = r
        /\ IF ~r.hasFile
           THEN /\ ares' = JsonRes(400, [ok |-> FALSE, error |-> "Upload field must be 'bill' (PDF)."])
                /\ apc' = "done"
           ELSE IF ~RxSearch(RxPdfName, r.name, 1).ok
           THEN /\ ares' = JsonRes(400, [ok |-> FALSE, error |-> "Please upload a PDF."])
                /\ apc' = "done"
           ELSE /\ ares' = NoRes
                /\ apc' = "parsing"
    /\ UNCHANGED <<pdfkit, atext, aaudit, apicked, asavings, varsCalc, varsMoney, varsSrv,
                   varsMore>>

\* the offer_source record of the JSON response
OfferSource(picked) ==
    [state |-> picked.state, utility |-> picked.utility, zone |-> picked.zone,
     rate_class |-> picked.rateClass, effective |-> picked.effective,
     term_months |-> picked.termMonths,
     matrix_rate_cents_per_kwh |-> picked.matrixCents,
     utility_ptc_cents_per_kwh |-> picked.ptcCents]

\* the guard and the call of the handler
AutoElectricSavings(a, picked) ==
    IF /\ Truthy(picked)
       /\ IsFiniteJS(a.usage.electricity_kwh)
       /\ IsFiniteJS(a.rates_detected.incumbent_electric_rate_usd_per_kwh)
    THEN computeElectricSavings(
             ToNumber(a.usage.electricity_kwh),
             ToNumber(a.rates_detected.incumbent_electric_rate_usd_per_kwh),
             ToNumber(picked.matrixCents))
    ELSE Null

\* the PDF when it is asked for and pdfkit is installed, else the JSON
AutoResponse(r, pdfOk, a, picked, sv) ==
    IF WantPdf(r) /\ pdfOk
    THEN [status |-> 200, kind |-> "pdf", body |-> [electric |-> sv]]
    ELSE JsonRes(200,
           [ok |-> TRUE, audit |-> a,
            savings |-> [electric |-> sv,
                         combined |-> IF Truthy(sv)
                             THEN [monthly_savings |-> sv.monthly_savings,
                                   annual_savings |-> sv.annual_savings,
                                   term_savings |-> sv.term_savings]
                             ELSE Null],
            offer_source |-> IF Truthy(sv) /\ Truthy(picked)
                             THEN OfferSource(picked) ELSE Null])

AutoParsed ==
    /\ apc = "parsing"
    /\ \E t \in {Str(x) : x \in AutoTexts} \cup {Undefined} :
        /\ atext' = Trim(OrElse(t, Str("")).s)
        /\ IF atext' = ""
           THEN /\ ares' = JsonRes(422, [ok |-> FALSE, error |-> "Could not extract text from PDF."])
                /\ apc' = "done"
                /\ UNCHANGED <<aaudit, apicked, asavings>>
           ELSE /\ aaudit' = AuditOf5[atext']
                /\ apicked' = pickMatrixOffer(OrElse(aaudit'.utility, Str("")))
                /\ asavings' = AutoElectricSavings(aaudit', apicked')
                /\ apc' = "done"
                /\ ares' = AutoResponse(areq, pdfkit, aaudit', apicked', asavings')
    /\ UNCHANGED <<pdfkit, areq, varsCalc, varsMoney, varsSrv,
                   varsMore>>

AutoParseFails ==
    /\ apc = "parsing"
    /\ ares' = JsonRes(500, [ok |-> FALSE, error |-> "Server error"])
    /\ apc' = "done"
    /\ UNCHANGED <<pdfkit, areq, atext, aaudit, apicked, asavings,
                   varsCalc, varsMoney, varsSrv,
                   varsMore>>

----------------------------------------------------------------------------
(* part_002: POST /proposal *)

DigitStr(d) == SubSeq("0123456789", d + 1, d + 1)

\* the decimal digits of a natural number
RECURSIVE NatToString(_)
NatToString(n) ==
    IF n < 10 THEN DigitStr(n) ELSE NatToString(n \div 10) \o DigitStr(n % 10)

RECURSIVE PadLeft(_, _)
PadLeft(s, len) == IF Len(s) >= len THEN s ELSE PadLeft("0" \o s, len)

\* the digits of the natural number scaled = |v| * 10^d, with the point
FixedDigits(scaled, d) ==
    NatToString(scaled \div Pow10(d))
        \o (IF d = 0 THEN "" ELSE "." \o PadLeft(NatToString(scaled % Pow10(d)), d))

\* v.toFixed(d) of a number below 10^21: d decimals, a tie going away from
\* zero, the sign of a negative number kept on a zero result
ToFixed(v, d) ==
    IF v.k = "nan" THEN "NaN"
    ELSE IF v.k = "inf" THEN (IF v.s < 0 THEN "-Infinity" ELSE "Infinity")
    ELSE (IF v.n < 0 THEN "-" ELSE "")
            \o FixedDigits((2 * Abs(v.n) * Pow10(d) + v.d) \div (2 * v.d), d)

\* the em dash shown for a missing value
Dash == "--"

\* `$${v.toFixed(d)}`
Dollars(v, d) == "$" \o ToFixed(v, d)

\* Number(field || dflt)
RateOr(field, dflt) == IF Truthy(field) THEN StringToNumber(field.s) ELSE dflt

\* the amounts of the handler: monthly usage m, annual usage y, monthly and
\* annual cost at the current and at the offered rate, their differences
HtmlCalc(m, rateCurrent, rateOffered) ==
    [m  |-> m, y |-> Mul(m, Int2Num(12)),
     rateCurrent |-> rateCurrent, rateOffered |-> rateOffered,
     cm |-> Mul(m, rateCurrent), cy |-> Mul(Mul(m, Int2Num(12)), rateCurrent),
     om |-> Mul(m, rateOffered), oy |-> Mul(Mul(m, Int2Num(12)), rateOffered),
     ms |-> Sub(Mul(m, rateCurrent), Mul(m, rateOffered)),
     ys |-> Sub(Mul(Mul(m, Int2Num(12)), rateCurrent),
                Mul(Mul(m, Int2Num(12)), rateOffered))]

\* the amounts computed from the request r and the parsed bill info
HandlerCalc2(r, info) ==
    HtmlCalc(OrElse(info.monthly_usage, Zero),
             RateOr(r.rate_current, Num(12, 10)), RateOr(r.rate_offered, Num(69, 100)))

\* the values the HTML proposal shows
HtmlBody(info, c) ==
    [utility        |-> OrElse(info.utility, Str(Dash)).s,
     commodity      |-> OrElse(info.commodity, Str(Dash)).s,
     monthly_usage  |-> (IF Truthy(c.m) THEN ToFixed(c.m, 0) ELSE Dash)
                            \o " " \o OrElse(info.unit, Str("")).s,
     annual_usage   |-> (IF Truthy(c.m) THEN ToFixed(c.y, 0) ELSE Dash)
                            \o " " \o OrElse(info.unit, Str("")).s,
     current_rate   |-> Dollars(c.rateCurrent, 4),
     offered_rate   |-> Dollars(c.rateOffered, 4),
     monthly_cost   |-> <<Dollars(c.cm, 2), Dollars(c.om, 2)>>,
     annual_cost    |-> <<Dollars(c.cy, 2), Dollars(c.oy, 2)>>,
     monthly_savings |-> Dollars(c.ms, 2),
     annual_savings |-> Dollars(c.ys, 2),
     details        |-> info]

HtmlRes(b) == [status |-> 200, kind |-> "html", body |-> b]
TextRes(st, b) == [status |-> st, kind |-> "text", body |-> b]

HtmlRateFields == {Undefined, Str(""), Str("0.5"), Str("x")}
HtmlRequests == [hasFile : BOOLEAN, rate_current : HtmlRateFields,
                 rate_offered : HtmlRateFields]
HtmlVocab == {" \t", "412 kWh", "ConEd", "1,220.5 therms"}
HtmlTexts == TextsOf(HtmlVocab, MaxBillLines)

IdleHtml ==
    /\ smtp = FALSE /\ hpc = "idle" /\ hreq = Undefined /\ htext = Undefined
    /\ hinfo = Undefined /\ hcalc = Undefined /\ hmail = "none" /\ hres = NoRes

InitHtml ==
    /\ smtp \in BOOLEAN  \* whether process.env.SMTP_URL is set
    /\ hpc = "idle" /\ hreq = Undefined /\ htext = Undefined
    /\ hinfo = Undefined /\ hcalc = Undefined /\ hmail = "none" /\ hres = NoRes

\* the request arrives; the check before await pdf(req.files.bill.data)
HtmlReceive ==
    /\ hpc = "idle"
    /\ \E r \in HtmlRequests :
        /\ hreq' = r
        /\ IF ~r.hasFile
           THEN hres' = TextRes(400, "Upload a PDF in the 'bill' field.") /\ hpc' = "done"
           ELSE hres' = NoRes /\ hpc' = "parsing"
    /\ UNCHANGED <<smtp, htext, hinfo, hcalc, hmail,
                   varsCalc, varsMoney, varsSrv, varsAuto, varsAudit, varsConc, varsLate>>

\* pdf resolves with the text t (undefined: no text property); the bill is
\* parsed and the amounts computed; without SMTP_URL the proposal is sent
HtmlParsed ==
    /\ hpc = "parsing"
    /\ \E t \in {Str(x) : x \in HtmlTexts} \cup {Undefined} :
        /\ htext' = OrElse(t, Str(""))
        /\ hinfo' = parseBillText2(htext'.s)
        /\ hcalc' = HandlerCalc2(hreq, hinfo')
        /\ IF smtp
           THEN hres' = NoRes /\ hpc' = "mailing"
           ELSE hres' = HtmlRes(HtmlBody(hinfo', hcalc')) /\ hpc' = "done"
    /\ UNCHANGED <<smtp, hreq, hmail,
                   varsCalc, varsMoney, varsSrv, varsAuto, varsAudit, varsConc, varsLate>>

\* pdf rejects: the catch block
HtmlParseFails ==
    /\ hpc = "parsing"
    /\ hres' = TextRes(500, "Could not read that PDF. Try another file or send me the exact bill you're using.")
    /\ hpc' = "done"
    /\ UNCHANGED <<smtp, hreq, htext, hinfo, hcalc, hmail,
                   varsCalc, varsMoney, varsSrv, varsAuto, varsAudit, varsConc, varsLate>>

\* a failed send is answered by the outer catch block
MailedRes_failureIs500(outcome, info, c) ==
    IF outcome = "failed"
    THEN TextRes(500, "Could not read that PDF. Try another file or send me the exact bill you're using.")
    ELSE HtmlRes(HtmlBody(info, c))
\* the response after the mail step: the inner catch only logs a warning and
\* the handler goes on to res.send
MailedRes(outcome, info, c) == HtmlRes(HtmlBody(info, c))

\* sendMail resolves, or createTransport or sendMail throws and the inner
\* catch logs a warning: the proposal is sent either way
HtmlMailed ==
    /\ hpc = "mailing"
    /\ hmail' \in {"sent", "failed"}
    /\ hres' = MailedRes(hmail', hinfo, hcalc)
    /\ hpc' = "done"
    /\ UNCHANGED <<smtp, hreq, htext, hinfo, hcalc,
                   varsCalc, varsMoney, varsSrv, varsAuto, varsAudit, varsConc, varsLate>>

----------------------------------------------------------------------------
(* The bill parsers applied to drawn documents *)

AuditVocab == {"Your ConEd bill", "412 kWh", "Acme Power Bill",
               "Crescent Power Statement", "Amount due $61.00", "Thank you"}
AuditTexts == TextsOf(AuditVocab, MaxBillLines)

IdleAudit == tpc = "idle" /\ ttext = "" /\ tout = Undefined

InitAudit ==
    /\ tpc = "call"
    /\ ttext \in AuditTexts
    /\ tout = [audit |-> Undefined, bill |-> Undefined, info |-> Undefined]

AuditPc(out) ==
    IF out.audit # Undefined /\ out.bill # Undefined /\ out.info # Undefined
    THEN "done" ELSE "call"

\* auditFromText(text) of server.js
CallAuditFromText ==
    /\ tpc = "call" /\ tout.audit = Undefined
    /\ tout' = [tout EXCEPT !.audit = auditFromText(ttext)]
    /\ tpc' = AuditPc(tout')
    /\ UNCHANGED <<ttext, varsCalc, varsMoney, varsSrv, varsAuto, varsHtml, varsConc, varsLate>>

\* parseBillText(textRaw) of server.js
CallParseBillText ==
    /\ tpc = "call" /\ tout.bill = Undefined
    /\ tout' = [tout EXCEPT !.bill = parseBillText(ttext)]
    /\ tpc' = AuditPc(tout')
    /\ UNCHANGED <<ttext, varsCalc, varsMoney, varsSrv, varsAuto, varsHtml, varsConc, varsLate>>

\* parseBillText(raw) of part_002
CallParseBillText2 ==
    /\ tpc = "call" /\ tout.info = Undefined
    /\ tout' = [tout EXCEPT !.info = parseBillText2(ttext)]
    /\ tpc' = AuditPc(tout')
    /\ UNCHANGED <<ttext, varsCalc, varsMoney, varsSrv, varsAuto, varsHtml, varsConc, varsLate>>

IdleConc ==
    /\ kapp = "none" /\ matrix = MATRIX
    /\ kpc = <<>> /\ kreq = <<>> /\ ktext = <<>> /\ kres = <<>>

IdleFun == now = 0 /\ fpc = "idle" /\ fin = Undefined /\ fout = Undefined

IdlePdf == doc = Undefined /\ chunks = <<>> /\ promise = Undefined /\ pdfres = NoRes

IdleLate == IdleFun /\ IdlePdf

IdleMore == IdleAudit /\ IdleHtml /\ IdleConc /\ IdleLate

----------------------------------------------------------------------------
(* Requests in flight in one process: server.js, or part_005 *)

Clients == 1..MaxClients
Apps == {"server", "part_005"}

ConcRequests == [hasFile : BOOLEAN, name : FileNames, format : Formats,
                 offer_rate : {Str("2")}, current_rate : {Undefined}]

\* the texts the extractor returns, per application
ConcTexts(app) ==
    IF app = "server" THEN {" \t", "Amount due $61.00\n412 kWh"}
    ELSE {"Acme Power Bill", "PECO Statement\n412 kWh @ 11.5 ¢"}

\* the audits of these texts, computed once
ConcAudit  == [t \in ConcTexts("server") |-> auditFromText(t)]
ConcAudit5 == [t \in ConcTexts("part_005") |-> auditFromText5(t)]

\* the answer to a request without a file, or with a file that is not a PDF;
\* NoRes when the handler goes on to the extraction
Rejection(app, r) ==
    IF ~r.hasFile
    THEN (IF app = "server"
          THEN JsonRes(400, [error |-> "No file uploaded. Field name must be 'bill'."])
          ELSE JsonRes(400, [ok |-> FALSE, error |-> "Upload field must be 'bill' (PDF)."]))
    ELSE IF ~RxSearch(RxPdfName, r.name, 1).ok
    THEN (IF app = "server"
          THEN JsonRes(400, [error |-> "Please upload a PDF file."])
          ELSE JsonRes(400, [ok |-> FALSE, error |-> "Please upload a PDF."]))
    ELSE NoRes

\* the catch block
ServerError(app) ==
    IF app = "server" THEN JsonRes(500, [error |-> "Server error"])
    ELSE JsonRes(500, [ok |-> FALSE, error |-> "Server error"])

\* the audit of the text t in the application app
AuditFor(app, t) == IF app = "server" THEN ConcAudit[t] ELSE ConcAudit5[Trim(t)]

\* server.js: the proposal built from the locals of the handler
ProposalFrom(l) == [unit |-> l.unit, savings |-> SavingsOf(l)]
SrvProposal(r, a) == ProposalFrom(HandlerLocals(r, a))

\* server.js: the proposal p held by a handler waiting for its PDF document
Pending(p) == [status |-> 0, kind |-> "pending", body |-> p]

\* server.js: the PDF is written when it is asked for, else the JSON is sent
SrvSend(r, p, a) == IF WantPdf(r) THEN Pending(p) ELSE ProposalJson(p, a)

\* server.js: the handler once the text t is extracted, a being its audit
SrvAnswer(r, t, a) ==
    IF Trim(t) = "" THEN JsonRes(422, [error |-> "Could not extract text from PDF."])
    ELSE SrvSend(r, SrvProposal(r, a), a)

\* part_005: the answer for the audit a and the offer picked
AnswerPicked5(r, pdfOk, a, picked) ==
    AutoResponse(r, pdfOk, a, picked, AutoElectricSavings(a, picked))

\* part_005: the answer once the text t is extracted, a being its audit and
\* the table holding rows
AutoAnswer(r, t, pdfOk, rows, a) ==
    IF Trim(t) = ""
    THEN JsonRes(422, [ok |-> FALSE, error |-> "Could not extract text from PDF."])
    ELSE AnswerPicked5(r, pdfOk, a, PickFrom(rows, OrElse(a.utility, Str(""))))

\* the table after the handler of part_005 has run on the text t
MatrixAfter(rows, t, a) ==
    IF Trim(t) = "" THEN rows ELSE MatrixAfterPick(rows, OrElse(a.utility, Str("")))

InitConc ==
    /\ kapp \in Apps
    /\ matrix = MATRIX
    /\ kpc = [c \in Clients |-> "idle"]
    /\ kreq = [c \in Clients |-> Undefined]
    /\ ktext = [c \in Clients |-> Undefined]
    /\ kres = [c \in Clients |-> NoRes]

\* a request arrives and runs up to its await on the extraction
ConcReceive ==
    \E c \in Clients, r \in ConcRequests :
        /\ kpc[c] = "idle"
        /\ kreq' = [kreq EXCEPT ![c] = r]
        /\ kres' = [kres EXCEPT ![c] = Rejection(kapp, r)]
        /\ kpc' = [kpc EXCEPT ![c] = IF kres'[c] = NoRes THEN "parsing" ELSE "done"]
        /\ UNCHANGED <<kapp, matrix, ktext, varsCalc, varsMoney, varsSrv, varsAuto,
                       varsAudit, varsHtml, varsLate>>

\* request c gets the answer ans, or waits for its PDF document; the table
\* becomes rows
AnswerWith(c, ans, rows) ==
    /\ kres' = [kres EXCEPT ![c] = ans]
    /\ kpc' = [kpc EXCEPT ![c] = IF ans.kind = "pending" THEN "pdf" ELSE "done"]
    /\ matrix' = rows

\* the handler of request c runs on from the extracted text t, a its audit
ParsedWith(c, t, a) ==
    /\ kpc[c] = "parsing"
    /\ ktext' = [ktext EXCEPT ![c] = Str(t)]
    /\ IF kapp = "server"
       THEN AnswerWith(c, SrvAnswer(kreq[c], t, a), matrix)
       ELSE AnswerWith(c, AutoAnswer(kreq[c], t, pdfkit, matrix, a), MatrixAfter(matrix, t, a))
    /\ UNCHANGED <<kapp, kreq, varsCalc, varsMoney, varsSrv, varsAuto,
                   varsAudit, varsHtml, varsLate>>

\* the extraction of a request resolves and its handler runs on: to its
\* answer, or in server.js to the await on the PDF document
ConcParsed ==
    \E c \in Clients, t \in ConcTexts(kapp) : ParsedWith(c, t, AuditFor(kapp, t))

\* the extraction of a request rejects: the catch block
ConcParseFails ==
    \E c \in Clients :
        /\ kpc[c] = "parsing"
        /\ kres' = [kres EXCEPT ![c] = ServerError(kapp)]
        /\ kpc' = [kpc EXCEPT ![c] = "done"]
        /\ UNCHANGED <<kapp, matrix, kreq, ktext, varsCalc, varsMoney, varsSrv, varsAuto,
                       varsAudit, varsHtml, varsLate>>

\* server.js: the PDF document of a request ends and is sent
ConcPdfEnd ==
    \E c \in Clients :
        /\ kpc[c] = "pdf"
        /\ kres' = [kres EXCEPT ![c] = ProposalPdf(kres[c].body)]
        /\ kpc' = [kpc EXCEPT ![c] = "done"]
        /\ UNCHANGED <<kapp, matrix, kreq, ktext, varsCalc, varsMoney, varsSrv, varsAuto,
                       varsAudit, varsHtml, varsLate>>

\* server.js: the PDF document of a request emits an error
ConcPdfError ==
    \E c \in Clients :
        /\ kpc[c] = "pdf"
        /\ kres' = [kres EXCEPT ![c] = ServerError(kapp)]
        /\ kpc' = [kpc EXCEPT ![c] = "done"]
        /\ UNCHANGED <<kapp, matrix, kreq, ktext, varsCalc, varsMoney, varsSrv, varsAuto,
                       varsAudit, varsHtml, varsLate>>

----------------------------------------------------------------------------
(* server.js: auditFromText called repeatedly while the clock runs *)

MaxTick == 2

\* the second the run starts in; `now` counts the milliseconds since
ClockSecond == "2025-01-01T00:00:00."

\* Date.prototype.toISOString of the instant ms (ms < 1000)
toISOString(ms) == ClockSecond \o PadLeft(NatToString(ms), 3) \o "Z"

\* meta: { parsed_at: new Date().toISOString(), confidence: "low/heuristic" }
Meta(ms) == [parsed_at |-> Str(toISOString(ms)), confidence |-> Str("low/heuristic")]

\* the whole record auditFromText returns at the instant ms: the extracted
\* fields a, meta and _notes (the field notes)
BillAudit(a, ms) ==
    IF a = Thrown THEN Thrown
    ELSE [utility |-> a.utility, account_number |-> a.account_number,
          billing_period |-> a.billing_period, totals |-> a.totals,
          usage |-> a.usage, meta |-> Meta(ms),
          notes |-> Str("Heuristic parser. Add utility-specific patterns for higher accuracy.")]

ClockVocab == {"Your ConEd bill", "412 kWh", "Amount due $61.00"}
ClockTexts == TextsOf(ClockVocab, MaxBillLines)
ClockAudit == [t \in ClockTexts |-> auditFromText(t)]

InitClock ==
    /\ now = 0
    /\ fpc = "call"
    /\ fin \in [text : ClockTexts]
    /\ fout = [same |-> <<>>, other |-> Undefined]

\* what the callers hold after auditFromText(t) returned rec: the callers of
\* fin.text keep their records, another text's record replaces the last one
ClockReturned(out, t, rec) ==
    IF t = fin.text THEN [out EXCEPT !.same = Append(@, rec)]
    ELSE [out EXCEPT !.other = rec]

\* time passes
ClockTick ==
    /\ fpc = "call" /\ now < MaxTick
    /\ now' = now + 1
    /\ UNCHANGED <<fpc, fin, fout, varsCalc, varsMoney, varsSrv, varsAuto,
                   varsAudit, varsHtml, varsConc, varsPdf>>

\* auditFromText(t), for the text under observation or for another one
ClockCall ==
    \E t \in ClockTexts :
        /\ fpc = "call"
        /\ fout' = ClockReturned(fout, t, BillAudit(ClockAudit[t], now))
        /\ fpc' = IF Len(fout'.same) = 2 THEN "done" ELSE "call"
        /\ UNCHANGED <<now, fin, varsCalc, varsMoney, varsSrv, varsAuto,
                       varsAudit, varsHtml, varsConc, varsPdf>>

----------------------------------------------------------------------------
(* server.js: parseDates applied to drawn documents *)

\* bill lines with their billing period as a reader sees it: kind "long" for
\* the phrase-anchored long form, "numeric" for a slash/dash pair, "none"
DateLines == {
    [line |-> "Billing period: Jan 5, 2024 to Feb 4, 2024", kind |-> "long",
     start |-> "Jan 5, 2024", end |-> "Feb 4, 2024"],
    [line |-> "billing period Mar 1,2024 - Mar 31,2024", kind |-> "long",
     start |-> "Mar 1,2024", end |-> "Mar 31,2024"],
    [line |-> "Read 01/05/24 - 02/04/24", kind |-> "numeric",
     start |-> "01/05/24", end |-> "02/04/24"],
    [line |-> "Billing period 3-1-2024 to 3-31-2024", kind |-> "numeric",
     start |-> "3-1-2024", end |-> "3-31-2024"],
    [line |-> "Billing period: Jan 5, 2024", kind |-> "none", start |-> "", end |-> ""],
    [line |-> "Due Mar 1, 2024 to Apr 1, 2024", kind |-> "none", start |-> "", end |-> ""],
    [line |-> "Meter 12/31/2024", kind |-> "none", start |-> "", end |-> ""]}
DateVocab == {d.line : d \in DateLines}
\* documents of up to MaxBillLines of these lines, with the lines they are made of
DateDocs  == {[text |-> JoinLines(ls), lines |-> ls] :
                 ls \in UNION {[1..k -> DateVocab] : k \in 0..MaxBillLines}}

InitDates ==
    /\ now = 0
    /\ fpc = "call"
    /\ fin \in DateDocs
    /\ fout = Undefined

\* parseDates(text)
CallParseDates ==
    /\ fpc = "call"
    /\ fout' = parseDates(fin.text)
    /\ fpc' = "done"
    /\ UNCHANGED <<now, fin, varsCalc, varsMoney, varsSrv, varsAuto,
                   varsAudit, varsHtml, varsConc, varsPdf>>

----------------------------------------------------------------------------
(* server.js: parseBillText applied to gas bills *)

\* lines of a gas bill with the figure a reader takes from each
ThermsLines == <<
    [line |-> "Total usage in ccf 119 ccf", kind |-> "ccf", value |-> Num(119, 1)],
    [line |-> "Total usage in ccf 0 ccf", kind |-> "ccf", value |-> Zero],
    [line |-> "Therm conversion factor 1.026", kind |-> "conv", value |-> Num(1026, 1000)],
    [line |-> "Total Gas Use 0 therms", kind |-> "therms", value |-> Zero],
    [line |-> "Total Gas  Use 122 therms", kind |-> "therms", value |-> Num(122, 1)],
    [line |-> "total use 97.5 therm", kind |-> "therms", value |-> Num(195, 2)],
    [line |-> "Gas delivery charges", kind |-> "none", value |-> Null]>>

\* the entries of ThermsLines with an index in S, in order
RECURSIVE ThermsChosen(_, _)
ThermsChosen(S, i) ==
    IF i > Len(ThermsLines) THEN <<>>
    ELSE (IF i \in S THEN <<ThermsLines[i]>> ELSE <<>>) \o ThermsChosen(S, i + 1)

\* the text of the entries es
ThermsText(es) == JoinLines([i \in 1..Len(es) |-> es[i].line])

ThermsDocs == {[text |-> ThermsText(ThermsChosen(S, 1)), lines |-> ThermsChosen(S, 1)] :
                  S \in SUBSET (1..Len(ThermsLines))}

InitTherms ==
    /\ now = 0
    /\ fpc = "call"
    /\ fin \in ThermsDocs
    /\ fout = Undefined

\* parseBillText(textRaw) on a gas bill
CallParseGasBill ==
    /\ fpc = "call"
    /\ fout' = parseBillText(fin.text)
    /\ fpc' = "done"
    /\ UNCHANGED <<now, fin, varsCalc, varsMoney, varsSrv, varsAuto,
                   varsAudit, varsHtml, varsConc, varsPdf>>

----------------------------------------------------------------------------
(* server.js: proposalPdfBuffer and sendProposalPdf *)

MaxChunks == 3

\* the byte strings the document emits as 'data'
PdfChunks == {"%PDF-1.3", "1 0 obj", "%%EOF"}

\* Buffer.concat with the chunks in reverse order
BufferConcat_reversed(cs) ==
    Concat([i \in 1..Len(cs) |-> cs[Len(cs) + 1 - i]], 1, Len(cs))
\* Buffer.concat(chunks)
BufferConcat(cs) == Concat(cs, 1, Len(cs))

\* the response sendProposalPdf writes for the buffer buf
PdfResponse(buf) ==
    [status |-> 200, kind |-> "pdf",
     headers |-> [ContentType |-> "application/pdf",
                  ContentDisposition |-> "attachment; filename=\"energy_proposal.pdf\"",
                  ContentLength |-> NatToString(Len(buf)),
                  CacheControl |-> "no-store"],
     body |-> buf]

\* new Promise(...): the document is created with its three listeners,
\* drawn on and ended; nothing has been emitted yet
InitPdf ==
    /\ doc = [emitted |-> <<>>, first |-> "none"]
    /\ chunks = <<>>
    /\ promise = [state |-> "pending"]
    /\ pdfres = NoRes

\* doc emits 'data': chunks.push(c)
PdfData ==
    \E c \in PdfChunks :
        /\ doc # Undefined /\ doc.first # "end" /\ Len(doc.emitted) < MaxChunks
        /\ doc' = [doc EXCEPT !.emitted = Append(@, c)]
        /\ chunks' = Append(chunks, c)
        /\ UNCHANGED <<promise, pdfres, varsCalc, varsMoney, varsSrv, varsAuto,
                       varsAudit, varsHtml, varsConc, varsFun>>

\* doc emits 'end': resolve(Buffer.concat(chunks)), without effect on a
\* promise that is already rejected
PdfEmitsEnd ==
    /\ doc # Undefined /\ doc.first # "end"
    /\ doc' = [doc EXCEPT !.first = IF @ = "none" THEN "end" ELSE @]
    /\ promise' = IF promise.state = "pending"
                  THEN [state |-> "resolved", value |-> BufferConcat(chunks)]
                  ELSE promise
    /\ UNCHANGED <<chunks, pdfres, varsCalc, varsMoney, varsSrv, varsAuto,
                   varsAudit, varsHtml, varsConc, varsFun>>

\* doc emits 'error' before it has ended: reject(err)
PdfEmitsError ==
    /\ doc # Undefined /\ doc.first = "none"
    /\ doc' = [doc EXCEPT !.first = "error"]
    /\ promise' = [state |-> "rejected"]
    /\ UNCHANGED <<chunks, pdfres, varsCalc, varsMoney, varsSrv, varsAuto,
                   varsAudit, varsHtml, varsConc, varsFun>>

\* the await in sendProposalPdf returns the buffer: status, headers, send
PdfSend ==
    /\ promise # Undefined /\ promise.state = "resolved" /\ pdfres = NoRes
    /\ pdfres' = PdfResponse(promise.value)
    /\ UNCHANGED <<doc, chunks, promise, varsCalc, varsMoney, varsSrv, varsAuto,
                   varsAudit, varsHtml, varsConc, varsFun>>

\* the await throws: the catch block of the handler answers
PdfCatch ==
    /\ promise # Undefined /\ promise.state = "rejected" /\ pdfres = NoRes
    /\ pdfres' = JsonRes(500, [error |-> "Server error"])
    /\ UNCHANGED <<doc, chunks, promise, varsCalc, varsMoney, varsSrv, varsAuto,
                   varsAudit, varsHtml, varsConc, varsFun>>

----------------------------------------------------------------------------
(* server.js: auditFromText and inferCurrentRate on bills with amounts *)

\* bill lines with what a reader takes from each: the amounts in cents and
\* the totals fields one of whose label phrases the line holds
FallbackLines == <<
    [line |-> "Supply charges $0.00", cents |-> {0}, labels |-> {"supply_charges"}],
    [line |-> "Amount due $61.00", cents |-> {6100}, labels |-> {"total_due"}],
    [line |-> "Basic service charge 12.40", cents |-> {1240}, labels |-> {"delivery_charges"}],
    [line |-> "Sales tax", cents |-> {}, labels |-> {"taxes"}],
    [line |-> "$1,250.00 credit, 0.50 fee", cents |-> {125000, 50}, labels |-> {}],
    [line |-> "412 kWh", cents |-> {}, labels |-> {}],
    [line |-> "00 kWh", cents |-> {}, labels |-> {}]>>

\* the entries of FallbackLines with an index in S, in order
RECURSIVE FallbackChosen(_, _)
FallbackChosen(S, i) ==
    IF i > Len(FallbackLines) THEN <<>>
    ELSE (IF i \in S THEN <<FallbackLines[i]>> ELSE <<>>) \o FallbackChosen(S, i + 1)

\* a document of the lines es
FallbackDoc(es) == [text |-> JoinLines([i \in 1..Len(es) |-> es[i].line]), lines |-> es]

\* the documents of up to three of the lines
FallbackDocs ==
    {FallbackDoc(FallbackChosen(S, 1)) :
        S \in {T \in SUBSET (1..Len(FallbackLines)) : Cardinality(T) <= 3}}

InitFallback ==
    /\ now = 0
    /\ fpc = "call"
    /\ fin \in FallbackDocs
    /\ fout = Undefined

\* the audit a with the current rate the handler infers from it
WithRate(a) == [audit |-> a, rate |-> inferCurrentRate(a)]

\* auditFromText(text), then inferCurrentRate(audit)
CallAuditAndRate ==
    /\ fpc = "call"
    /\ fout' = WithRate(auditFromText(fin.text))
    /\ fpc' = "done"
    /\ UNCHANGED <<now, fin, varsCalc, varsMoney, varsSrv, varsAuto,
                   varsAudit, varsHtml, varsConc, varsPdf>>

----------------------------------------------------------------------------
(* part_005: pickMatrixOffer applied to drawn utility names *)

\* utility names as guessUtility and callers produce them: a core name,
\* possibly inside a longer line
PickCores == {"", " ", "Ameren", "ameren illinois", "COMED", "Con Edison", "Delmarva",
              "Eversource", "EVERSOURCE (NSTAR)", "National Grid", "PECO",
              "Potomac Edison/Allegany Power", "Toledo Edison", "Unknown Utility",
              "Light", "Edison"}
PickNames ==
    {Null} \cup {Str(pre \o core \o suf) :
                    pre \in {"", "The "}, core \in PickCores, suf \in {"", " Co", " Energy"}}

\* the module is loaded: MATRIX is the table of the source
InitPick ==
    /\ now = 0
    /\ fpc = "call"
    /\ fin \in PickNames
    /\ fout = Undefined
    /\ kapp = "none" /\ matrix = MATRIX
    /\ kpc = <<>> /\ kreq = <<>> /\ ktext = <<>> /\ kres = <<>>

\* pickMatrixOffer(utilityName)
CallPickMatrixOffer ==
    /\ fpc = "call"
    /\ fout' = PickFrom(matrix, fin)
    /\ matrix' = MatrixAfterPick(matrix, fin)
    /\ fpc' = "done"
    /\ UNCHANGED <<now, fin, kapp, kpc, kreq, ktext, kres, varsCalc, varsMoney, varsSrv,
                   varsAuto, varsAudit, varsHtml, varsPdf>>

----------------------------------------------------------------------------
(* part_004: findMoneyNear, next to findMoney of server.js *)

\* new RegExp(labels.join("|"), "i").test(line); without labels the pattern
\* is empty and matches every line
NearHit(line, labels) == Len(labels) = 0 \/ LabelHit(line, labels)

\* the outer loop of findMoneyNear
RECURSIVE NearMoney(_, _, _)
NearMoney(lines, labels, i) ==
    IF i > Len(lines) THEN Null
    ELSE IfNull(IF NearHit(lines[i], labels) THEN WindowMoney(lines, i) ELSE Null,
                NearMoney(lines, labels, i + 1))

findMoneyNear(t, labels) == NearMoney(Lines(t), labels, 1)

NearVocab == {"Supply Charges", "gas supply $45.10", "$99.99 then 1,250.00", "n/a"}
NearTexts == TextsOf(NearVocab, MaxLines)
\* the label lists: none (the default argument), and two of auditFromText's
NearLabelLists == {<<>>, SupplyLabels, TaxLabels}

InitNear ==
    /\ now = 0
    /\ fpc = "call"
    /\ fin \in [text : NearTexts, labels : NearLabelLists]
    /\ fout = Undefined

\* findMoneyNear(text, labels) and findMoney(text, labels) on the same arguments
CallBothMoney ==
    /\ fpc = "call"
    /\ fout' = [near |-> findMoneyNear(fin.text, fin.labels),
                money |-> findMoney(fin.text, fin.labels)]
    /\ fpc' = "done"
    /\ UNCHANGED <<now, fin, varsCalc, varsMoney, varsSrv, varsAuto,
                   varsAudit, varsHtml, varsConc, varsPdf>>

----------------------------------------------------------------------------
(* Quantity selection in server.js, part_000 and part_002 *)

\* part_000, POST /proposal: monthlyQty and unit, chosen by truthiness
Selection0(usage) ==
    IF Truthy(usage.electricity_kwh)
    THEN [qty |-> usage.electricity_kwh, unit |-> Str("kWh")]
    ELSE IF Truthy(usage.gas_therms)
    THEN [qty |-> usage.gas_therms, unit |-> Str("therms")]
    ELSE IF Truthy(usage.gas_ccf)
    THEN [qty |-> usage.gas_ccf, unit |-> Str("ccf")]
    ELSE [qty |-> Null, unit |-> Null]

\* the quantity and unit of a selection of part_002
QtyUnit2(sel) == [qty |-> sel.monthly_usage, unit |-> sel.unit]

\* the usage record u under the field names of part_002
UsageAs2(u) == [kwh |-> u.electricity_kwh, therms |-> u.gas_therms, ccf |-> u.gas_ccf]

\* extracted quantities: absent, zero, positive
UsageValues == {Null, Zero} \cup {Int2Num(q) : q \in 1..MaxQty}
UsageRecords == [electricity_kwh : UsageValues, gas_therms : UsageValues,
                 gas_ccf : UsageValues]

InitUnit ==
    /\ now = 0
    /\ fpc = "call"
    /\ fin \in UsageRecords
    /\ fout = Undefined

\* the three selections on the same usage record
CallSelections ==
    /\ fpc = "call"
    /\ fout' = [server |-> inferMonthlyQtyAndUnit([usage |-> fin]),
                part0  |-> Selection0(fin),
                part2  |-> QtyUnit2(Selection2(UsageAs2(fin)))]
    /\ fpc' = "done"
    /\ UNCHANGED <<now, fin, varsCalc, varsMoney, varsSrv, varsAuto,
                   varsAudit, varsHtml, varsConc, varsPdf>>

----------------------------------------------------------------------------
(* Specifications *)

Init == IdleCalc /\ IdleMoney /\ IdleSrv /\ IdleAuto /\ IdleMore
Next == Receive \/ Parsed \/ ParseFails \/ PdfEnd \/ PdfError
Spec == Init /\ [][Next]_vars

\* the promise of pdfParse settles, and the PDF document, once ended by
\* doc.end(), emits 'end' or 'error'
SpecLive == Spec /\ WF_vars(Parsed \/ ParseFails) /\ WF_vars(PdfEnd \/ PdfError)

InitC == InitCalc /\ IdleMoney /\ IdleSrv /\ IdleAuto /\ IdleMore
NextC == CallBuildSavings \/ CallComputeSavings \/ CallBuildAudit
SpecCalc == InitC /\ [][NextC]_vars

InitM == IdleCalc /\ InitMoney /\ IdleSrv /\ IdleAuto /\ IdleMore
NextM == CallFindMoney
SpecMoney == InitM /\ [][NextM]_vars

InitA == IdleCalc /\ IdleMoney /\ IdleSrv /\ InitAuto /\ IdleMore
NextA == AutoReceive \/ AutoParsed \/ AutoParseFails
SpecAuto == InitA /\ [][NextA]_vars

InitT == IdleCalc /\ IdleMoney /\ IdleSrv /\ IdleAuto /\ InitAudit /\ IdleHtml /\ IdleConc /\ IdleLate
NextT == CallAuditFromText \/ CallParseBillText \/ CallParseBillText2
SpecAudit == InitT /\ [][NextT]_vars

InitH == IdleCalc /\ IdleMoney /\ IdleSrv /\ IdleAuto /\ IdleAudit /\ InitHtml /\ IdleConc /\ IdleLate
NextH == HtmlReceive \/ HtmlParsed \/ HtmlParseFails \/ HtmlMailed
SpecHtml == InitH /\ [][NextH]_vars

InitK == IdleCalc /\ IdleMoney /\ IdleSrv /\ InitAuto /\ IdleAudit /\ IdleHtml /\ InitConc /\ IdleLate
NextK == ConcReceive \/ ConcParsed \/ ConcParseFails \/ ConcPdfEnd \/ ConcPdfError
SpecConc == InitK /\ [][NextK]_vars

InitD == IdleCalc /\ IdleMoney /\ IdleSrv /\ IdleAuto /\ IdleAudit /\ IdleHtml /\ IdleConc /\ IdlePdf /\ InitClock
NextD == ClockTick \/ ClockCall
SpecClock == InitD /\ [][NextD]_vars

InitP == IdleCalc /\ IdleMoney /\ IdleSrv /\ IdleAuto /\ IdleAudit /\ IdleHtml /\ IdleConc /\ IdlePdf /\ InitDates
NextP == CallParseDates
SpecDates == InitP /\ [][NextP]_vars

InitG == IdleCalc /\ IdleMoney /\ IdleSrv /\ IdleAuto /\ IdleAudit /\ IdleHtml /\ IdleConc /\ IdlePdf /\ InitTherms
NextG == CallParseGasBill
SpecTherms == InitG /\ [][NextG]_vars

InitB == IdleCalc /\ IdleMoney /\ IdleSrv /\ IdleAuto /\ IdleAudit /\ IdleHtml /\ IdleConc /\ IdleFun /\ InitPdf
NextB == PdfData \/ PdfEmitsEnd \/ PdfEmitsError \/ PdfSend \/ PdfCatch
SpecPdf == InitB /\ [][NextB]_vars

InitF == IdleCalc /\ IdleMoney /\ IdleSrv /\ IdleAuto /\ IdleAudit /\ IdleHtml /\ IdleConc /\ IdlePdf /\ InitFallback
NextF == CallAuditAndRate
SpecFallback == InitF /\ [][NextF]_vars

InitO == IdleCalc /\ IdleMoney /\ IdleSrv /\ IdleAuto /\ IdleAudit /\ IdleHtml /\ IdlePdf /\ InitPick
NextO == CallPickMatrixOffer
SpecPick == InitO /\ [][NextO]_vars

InitN == IdleCalc /\ IdleMoney /\ IdleSrv /\ IdleAuto /\ IdleAudit /\ IdleHtml /\ IdleConc /\ IdlePdf /\ InitNear
NextN == CallBothMoney
SpecNear == InitN /\ [][NextN]_vars

InitU == IdleCalc /\ IdleMoney /\ IdleSrv /\ IdleAuto /\ IdleAudit /\ IdleHtml /\ IdleConc /\ IdlePdf /\ InitUnit
NextU == CallSelections
SpecUnit == InitU /\ [][NextU]_vars

----------------------------------------------------------------------------
(* Properties of the savings calculators (SpecCalc) *)

\* an input of a calculator is missing: null or undefined
Missing(v) == EqNull(v)

AnyMissing == Missing(cin.qty) \/ Missing(cin.currentRate) \/ Missing(cin.offerRate)

\* C1: whenever the quantity, the current rate or the offer rate is missing,
\* buildSavings returns monthlySavings, annualSavings and the four termSavings
\* entries as null together with the insufficient-data marker unit: null, and
\* computeSavings returns ok: false with every derived field absent.
C1_MissingInputsGiveNoSavings ==
    AnyMissing =>
        /\ cout.bs # Undefined =>
              /\ cout.bs.monthlySavings = Null
              /\ cout.bs.annualSavings = Null
              /\ \A y \in Terms : cout.bs.termSavings[y] = Null
              /\ cout.bs.unit = Null
        /\ cout.cs # Undefined =>
              /\ cout.cs.ok = FALSE
              /\ cout.cs.monthlySavings = Undefined
              /\ cout.cs.annualSavings = Undefined
              /\ \A y \in Terms : cout.cs.term[y] = Undefined

C1_Witness ==
    /\ cpc = "done"
    /\ cin.offerRate = Null /\ Truthy(cin.qty) /\ Truthy(cin.currentRate)
    /\ cout.bs.monthlySavings = Null /\ cout.bs.termSavings["5yr"] = Null
    /\ cout.bs.unit = Null
    /\ cout.cs.ok = FALSE /\ cout.cs.monthlySavings = Undefined

\* the quantity and both rates are present: a non-zero quantity, two numbers
AllPresent == Truthy(cin.qty) /\ IsNum(cin.currentRate) /\ IsNum(cin.offerRate)

Scenario122 ==
    /\ cin.qty = Int2Num(122)
    /\ cin.currentRate = Num(120, 100) /\ cin.offerRate = Num(69, 100)

IsCents(v) == IsNum(v) /\ (100 * v.n) % v.d = 0

\* C12: every monetary value stored in a savings result (monthly savings,
\* annual savings, each term saving) is a whole multiple of 0.01, for every
\* quantity and every pair of rates, rates of four decimals included.
C12_StoredValuesRounded ==
    /\ (cout.bs # Undefined /\ AllPresent) =>
           /\ IsCents(cout.bs.monthlySavings)
           /\ IsCents(cout.bs.annualSavings)
           /\ \A y \in Terms : IsCents(cout.bs.termSavings[y])
    /\ (cout.ba # Undefined /\ ~EqNull(cout.ba.savings.monthly)) =>
           /\ IsCents(cout.ba.savings.monthly)
           /\ IsCents(cout.ba.savings.annual)

\* buildSavings stores 34.5626 for 61 units at 0.69 against 0.1234
C12_UnroundedStored ==
    /\ cin.qty = Int2Num(61)
    /\ cin.currentRate = Num(69, 100) /\ cin.offerRate = Num(1234, 10000)
    /\ cout.bs # Undefined
    /\ cout.bs.monthlySavings = Num(345626, 10000)
    /\ ~IsCents(cout.bs.annualSavings)

\* v < 0
Negative(v) == IsNum(v) /\ v.n < 0

\* C13: for a positive quantity and two present rates with
\* currentRate < offerRate, buildSavings returns monthlySavings,
\* annualSavings and every termSavings entry strictly negative: the result
\* is not clamped to zero and is not the insufficient-data result.
C13_NegativeSavingsKept ==
    (cout.bs # Undefined /\ AllPresent /\ Gt(cin.offerRate, cin.currentRate)) =>
        /\ Negative(cout.bs.monthlySavings)
        /\ Negative(cout.bs.annualSavings)
        /\ \A y \in Terms : Negative(cout.bs.termSavings[y])
        /\ cout.bs.unit # Null

C13_Witness ==
    /\ cin.qty = Int2Num(61)
    /\ cin.currentRate = Num(23, 100) /\ cin.offerRate = Num(46, 100)
    /\ cout.bs # Undefined
    /\ cout.bs.monthlySavings = Num(-1403, 100)
    /\ cout.bs.termSavings["2yr"] = Num(-33672, 100)

Twice(v) == Mul(Int2Num(2), v)

\* C14: for fixed present rates and a positive quantity q, the monthly and
\* annual savings computed for 2q are exactly twice those computed for q,
\* by buildSavings and by buildAudit.
C14_DoublingQuantityDoubles ==
    AllPresent =>
        /\ cout.bs # Undefined =>
              /\ buildSavings(Twice(cin.qty), cin.currentRate, cin.offerRate).monthlySavings
                     = Twice(cout.bs.monthlySavings)
              /\ buildSavings(Twice(cin.qty), cin.currentRate, cin.offerRate).annualSavings
                     = Twice(cout.bs.annualSavings)
        /\ (cout.ba # Undefined /\ ~EqNull(cout.ba.savings.monthly)) =>
              /\ buildAudit(ParsedOf(Twice(cin.qty), cin.unit),
                            PricingOf(cin.currentRate, cin.offerRate)).savings.monthly
                     = Twice(cout.ba.savings.monthly)
              /\ buildAudit(ParsedOf(Twice(cin.qty), cin.unit),
                            PricingOf(cin.currentRate, cin.offerRate)).savings.annual
                     = Twice(cout.ba.savings.annual)

\* the whole number of cents in a value that is a multiple of 0.01
CentsOf(v) == (100 * v.n) \div v.d

\* the savings record buildAudit returns for twice the quantity of the call
AuditOfTwice ==
    buildAudit(ParsedOf(Twice(cin.qty), cin.unit),
               PricingOf(cin.currentRate, cin.offerRate)).savings

\* C14 (amended): for fixed present rates and a positive quantity q,
\* buildSavings returns for 2q exactly twice the monthly and annual savings it
\* returns for q; buildAudit, which rounds to cents, returns for 2q a monthly
\* saving within one cent of twice the one for q, and an annual saving within
\* twelve cents of twice the one for q.
C14_DoublingWithinCent ==
    AllPresent =>
        /\ cout.bs # Undefined =>
              /\ buildSavings(Twice(cin.qty), cin.currentRate, cin.offerRate).monthlySavings
                     = Twice(cout.bs.monthlySavings)
              /\ buildSavings(Twice(cin.qty), cin.currentRate, cin.offerRate).annualSavings
                     = Twice(cout.bs.annualSavings)
        /\ (cout.ba # Undefined /\ ~EqNull(cout.ba.savings.monthly)) =>
              /\ IsCents(AuditOfTwice.monthly) /\ IsCents(AuditOfTwice.annual)
              /\ CentsOf(AuditOfTwice.monthly) - 2 * CentsOf(cout.ba.savings.monthly)
                     \in -1..1
              /\ CentsOf(AuditOfTwice.annual) - 2 * CentsOf(cout.ba.savings.annual)
                     \in -12..12

\* buildAudit: 61 therms at 0.69 against 0.1234 give 34.56, 122 therms 69.13
C14_RoundedNotDoubled ==
    /\ cin.qty = Int2Num(61) /\ cin.unit = Str("therms")
    /\ cin.currentRate = Num(69, 100) /\ cin.offerRate = Num(1234, 10000)
    /\ cout.ba # Undefined
    /\ cout.ba.savings.monthly = Num(3456, 100)
    /\ buildAudit(ParsedOf(Int2Num(122), cin.unit),
                  PricingOf(cin.currentRate, cin.offerRate)).savings.monthly
           = Num(6913, 100)

----------------------------------------------------------------------------
(* Properties of the bill parsers (SpecAudit) *)

AuditCalled == tout # Undefined /\ tout.audit # Undefined

NullTotals == [total_due |-> Null, delivery_charges |-> Null,
               supply_charges |-> Null, taxes |-> Null]
NullUsage  == [gas_therms |-> Null, gas_ccf |-> Null, electricity_kwh |-> Null]

\* the insufficient-data result of buildSavings
Insufficient(sv) ==
    /\ sv.unit = Null /\ sv.monthlySavings = Null /\ sv.annualSavings = Null
    /\ \A y \in Terms : sv.termSavings[y] = Null

\* C15: auditFromText returns a record for every string and never throws; for
\* the empty string the record has account_number null, billing_period start
\* and end null, all four totals null, all usage quantities null and utility
\* "Unknown Utility", and the savings computed from that record are the
\* insufficient-data result whatever the rate fields.
C15_AuditFromTextTotal ==
    AuditCalled =>
        /\ tout.audit # Thrown
        /\ ttext = "" =>
              /\ tout.audit = [utility |-> Str("Unknown Utility"),
                               account_number |-> Null,
                               billing_period |-> [start |-> Null, end |-> Null],
                               totals |-> NullTotals, usage |-> NullUsage]
              /\ \A c, o \in RateFields :
                    Insufficient(HandlerSavings([current_rate |-> c, offer_rate |-> o],
                                                tout.audit))

C15_Witness ==
    /\ tpc = "done" /\ ttext = ""
    /\ tout.audit.utility = Str("Unknown Utility")
    /\ tout.audit.totals = NullTotals

\* one of the label phrases handed to findMoney occurs in t, whatever the case
HasMoneyLabel(t) ==
    \E labels \in LabelLists : \E i \in 1..Len(labels) : ITest(t, labels[i])

\* t holds a digit, a point and two digits in a row
HasCurrency(t) ==
    \E i \in 1..(Len(t) - 3) :
        /\ IsDigit(CharAt(t, i)) /\ CharAt(t, i + 1) = "."
        /\ IsDigit(CharAt(t, i + 2)) /\ IsDigit(CharAt(t, i + 3))

HasUnitWord(t) == ITest(t, "kwh") \/ ITest(t, "therm") \/ ITest(t, "ccf")

\* a word of an alias rule, or a word the structural rule needs, occurs in t
NamesUtility(t) ==
    \/ \E w \in {"con", "sce", "southern california edison", "pge", "pacific gas",
                  "national grid", "duke energy", "sdge", "san diego gas"} : ITest(t, w)
    \/ \E w \in {"Bill", "Invoice", "Statement"} : Includes(t, w)

\* C16: for every document without a money label phrase and without a
\* currency-shaped substring auditFromText returns every totals field null,
\* every usage field null and the utility "Unknown Utility".
C16_NoLabelsAllNull ==
    (AuditCalled /\ ~HasMoneyLabel(ttext) /\ ~HasCurrency(ttext)) =>
        /\ tout.audit.totals = NullTotals
        /\ tout.audit.usage = NullUsage
        /\ tout.audit.utility = Str("Unknown Utility")

\* C16 (amended): for every document without a money label phrase and without
\* a currency-shaped substring auditFromText returns every totals field null;
\* every usage field is null when the document also holds none of the unit
\* words kWh, therm, ccf; the utility is "Unknown Utility" when it also holds
\* no word of an alias rule and none of Bill, Invoice, Statement.
C16_NoLabelsTotalsNull ==
    (AuditCalled /\ ~HasMoneyLabel(ttext) /\ ~HasCurrency(ttext)) =>
        /\ tout.audit.totals = NullTotals
        /\ ~HasUnitWord(ttext) => tout.audit.usage = NullUsage
        /\ ~NamesUtility(ttext) => tout.audit.utility = Str("Unknown Utility")

\* a bill of one usage line: no label, no amount, and a quantity all the same
C16_Witness ==
    /\ AuditCalled /\ ttext = "412 kWh"
    /\ ~HasMoneyLabel(ttext) /\ ~HasCurrency(ttext)
    /\ tout.audit.totals = NullTotals
    /\ tout.audit.usage.electricity_kwh = Int2Num(412)
    /\ tout.audit.utility = Str("Unknown Utility")

NonEmptyStr(v) == v.k = "str" /\ v.s # ""

\* the call returned a record whose utility is a non-empty string
UtilityNamed(out) ==
    out # Undefined => (out # Thrown /\ NonEmptyStr(out.utility))

\* C18: the utility field of every extraction result (auditFromText of
\* server.js, parseBillText of server.js, parseBillText of part_002) is a
\* non-empty string and never null.
C18_UtilityNeverNull ==
    tout # Undefined =>
        UtilityNamed(tout.audit) /\ UtilityNamed(tout.bill) /\ UtilityNamed(tout.info)

\* a bill that names no utility: both parseBillText return utility null
C18_NullUtility ==
    /\ tpc = "done" /\ ttext = "Thank you"
    /\ tout.audit.utility = Str("Unknown Utility")
    /\ tout.bill # Thrown /\ tout.bill.utility = Null
    /\ tout.info.utility = Null

----------------------------------------------------------------------------
(* Properties of the part_002 handler (SpecHtml) *)

\* the extractor returned, and its text is empty or blank
HtmlEmptyExtraction == hpc = "done" /\ htext # Undefined /\ Trim(htext.s) = ""

\* C17: when the text returned by the PDF text extractor is empty or
\* whitespace-only the request is answered with status 422, and neither the
\* bill parser nor the savings computation has run on that text.
C17_EmptyTextIs422 ==
    HtmlEmptyExtraction =>
        hres.status = 422 /\ hinfo = Undefined /\ hcalc = Undefined

\* a blank extraction answered with the HTML proposal
C17_EmptyTextProposal ==
    /\ HtmlEmptyExtraction /\ htext.s = " \t"
    /\ hres.status = 200 /\ hres.kind = "html"
    /\ hinfo # Undefined /\ hinfo.monthly_usage = Null
    /\ hcalc # Undefined

\* s reads as a dollar amount: $ and digits, with or without a sign
ShowsAmount(s) ==
    /\ Len(s) >= 2 /\ Head(s) = "$"
    /\ \/ IsDigit(CharAt(s, 2))
       \/ Len(s) >= 3 /\ CharAt(s, 2) = "-" /\ IsDigit(CharAt(s, 3))

\* C19: when no usage quantity was extracted from the bill the HTML proposal
\* shows no numeric savings amount, neither monthly nor annual.
C19_NoUsageNoAmount ==
    (hpc = "done" /\ hres.kind = "html" /\ EqNull(hinfo.monthly_usage)) =>
        /\ ~ShowsAmount(hres.body.monthly_savings)
        /\ ~ShowsAmount(hres.body.annual_savings)

\* a bill without usage, rates left to their defaults: savings of $0.00
C19_ZeroSavingsShown ==
    /\ hpc = "done" /\ hres.kind = "html"
    /\ htext = Str("ConEd") /\ EqNull(hinfo.monthly_usage)
    /\ hreq.rate_current = Undefined /\ hreq.rate_offered = Undefined
    /\ hres.body.monthly_usage = Dash \o " units"
    /\ hres.body.monthly_savings = "$0.00"
    /\ hres.body.annual_savings = "$0.00"

----------------------------------------------------------------------------
(* Properties of requests in flight (SpecConc) *)

\* the answers a request with the form r can get when it is the only one in
\* the process, its extraction having failed (t undefined) or returned t
AloneAnswers(app, r, t, pdfOk) ==
    IF Rejection(app, r) # NoRes THEN {Rejection(app, r)}
    ELSE IF t = Undefined THEN {ServerError(app)}
    ELSE IF app = "part_005"
    THEN {AutoAnswer(r, t.s, pdfOk, MATRIX, AuditFor(app, t.s))}
    ELSE IF Trim(t.s) # "" /\ WantPdf(r)
    THEN {ProposalPdf(SrvProposal(r, AuditFor(app, t.s))), ServerError(app)}
    ELSE {SrvAnswer(r, t.s, AuditFor(app, t.s))}

----------------------------------------------------------------------------
(* Properties of the part_005 handler (SpecAuto) *)

AutoJsonOk == apc = "done" /\ ares.status = 200 /\ ares.kind = "json"

AutoInputMissing ==
    \/ ~Truthy(apicked)
    \/ EqNull(aaudit.usage.electricity_kwh)
    \/ EqNull(aaudit.rates_detected.incumbent_electric_rate_usd_per_kwh)

\* C2: in a 200 JSON response savings.electric is non-null only when an offer
\* was picked and both electricity_kwh and the incumbent electric rate were
\* extracted; when one of the three is missing, savings.electric,
\* savings.combined and offer_source are all null.
C2_ElectricOnlyWithAllInputs ==
    (AutoJsonOk /\ AutoInputMissing) =>
        /\ ares.body.savings.electric = Null
        /\ ares.body.savings.combined = Null
        /\ ares.body.offer_source = Null

\* the response that refutes C2: an offer is picked for a bill without usage
\* and rate, and zero savings are reported
C2_ZeroSavingsReported ==
    /\ AutoJsonOk
    /\ Truthy(apicked)
    /\ EqNull(aaudit.usage.electricity_kwh)
    /\ EqNull(aaudit.rates_detected.incumbent_electric_rate_usd_per_kwh)
    /\ ares.body.savings.electric # Null
    /\ ares.body.savings.electric.monthly_savings = Zero
    /\ ares.body.savings.combined # Null
    /\ ares.body.offer_source # Null
    /\ ares.body.offer_source.utility = apicked.utility

----------------------------------------------------------------------------
(* Properties of the server.js handler (Spec) *)

\* the handler has computed the savings of the request
Computed == savings # Undefined

\* a form field is supplied: neither absent nor the empty string
Supplied(f) == ~EqNull(f) /\ f # Str("")

\* the parsed value of a supplied field is NaN
ParsesToNaN(f) == Supplied(f) /\ IsNaN(StringToNumber(KeepDigitsDots(f.s)))

RECURSIVE HasDigit(_)
HasDigit(s) == s # "" /\ (IsDigit(Head(s)) \/ HasDigit(Tail(s)))

\* a field that denotes a number: it is supplied and holds a digit
Numeric(f) == Supplied(f) /\ HasDigit(f.s)

SavingsNumbers(sv) ==
    {sv.currentRate, sv.offerRate, sv.monthlySavings, sv.annualSavings}
    \cup {sv.termSavings[y] : y \in Terms}

\* C3: a rate field whose parsed value is NaN is treated as absent (null), and
\* no field of the savings record is NaN.
C3_NaNRateIsAbsent ==
    Computed =>
        /\ ParsesToNaN(req.offer_rate) => locals.offerRate = Null
        /\ ParsesToNaN(req.current_rate) => locals.supplied = Null
        /\ \A v \in SavingsNumbers(savings) : ~IsNaN(v)

\* the state that refutes C3: the NaN of the offer_rate field reaches the
\* savings record
C3_NaNInSavings ==
    /\ Computed
    /\ ParsesToNaN(req.offer_rate)
    /\ IsNaN(locals.offerRate)
    /\ IsNaN(savings.offerRate)
    /\ IsNaN(savings.monthlySavings)

\* C4: a rate field that is absent or holds no digit never becomes the number
\* 0, neither as the rate the savings are computed from nor as the currentRate
\* or offerRate of the savings record.
C4_NoRateCoercedToZero ==
    Computed =>
        /\ ~Numeric(req.offer_rate) =>
              locals.offerRate # Zero /\ savings.offerRate # Zero
        /\ ~Numeric(req.current_rate) =>
              locals.supplied # Zero /\ savings.currentRate # Zero

\* the state that refutes C4: an offer_rate without a digit is used as 0 in
\* the computation of the savings
C4_ZeroRateUsed ==
    /\ Computed
    /\ Supplied(req.offer_rate) /\ ~HasDigit(req.offer_rate.s)
    /\ locals.offerRate = Zero
    /\ IsNum(savings.monthlySavings)
    /\ savings.monthlySavings = Mul(locals.currentRate, locals.qty)

\* the first non-null of the three usage fields, with its unit
FirstUsage(u) ==
    LET order == <<[v |-> u.electricity_kwh, unit |-> Str("kWh")],
                   [v |-> u.gas_therms, unit |-> Str("therms")],
                   [v |-> u.gas_ccf, unit |-> Str("ccf")]>>
        present == {i \in 1..3 : order[i].v # Null}
    IN  IF present = {} THEN [qty |-> Null, unit |-> Null]
        ELSE LET i == CHOOSE k \in present : \A m \in present : k <= m
             IN  [qty |-> order[i].v, unit |-> order[i].unit]

GasValues == {Null, Int2Num(7)}

\* C8: the selected quantity and unit are the first non-null of
\* electricity_kwh, gas_therms, gas_ccf, and (null, null) when all are null;
\* when electricity_kwh is non-null, the savings are the same whatever the
\* values of gas_therms and gas_ccf.
C8_FirstQuantityOnly ==
    Computed =>
        /\ locals.qty = FirstUsage(audit.usage).qty
        /\ locals.unit = FirstUsage(audit.usage).unit
        /\ proposal.unit = locals.unit
        /\ audit.usage.electricity_kwh # Null =>
              \A g1, g2 \in GasValues :
                  HandlerSavings(req, [audit EXCEPT !.usage.gas_therms = g1,
                                                    !.usage.gas_ccf = g2]) = savings

C8_Witness ==
    /\ pc = "done" /\ res.status = 200
    /\ audit.usage.electricity_kwh # Null
    /\ audit.usage.gas_therms # Null /\ audit.usage.gas_ccf # Null
    /\ locals.unit = Str("kWh")
    /\ IsNum(savings.monthlySavings)
    /\ savings.monthlyQty = audit.usage.electricity_kwh

\* C9: a supplied current rate is used unchanged; without one, currentRate is
\* supply_charges divided by the selected quantity when both are present and
\* the quotient is finite, and null otherwise.
C9_CurrentRateInference ==
    Computed =>
        IF Supplied(req.current_rate)
        THEN locals.currentRate = ParseRateField(req.current_rate)
        ELSE LET supply == audit.totals.supply_charges
                 qty    == locals.qty
             IN  IF supply # Null /\ qty # Null /\ IsFiniteNum(Div(supply, qty))
                 THEN locals.currentRate = Div(supply, qty)
                 ELSE locals.currentRate = Null

\* the state that refutes C9: supply charges of 0 and a quantity are present,
\* the quotient 0 is finite, and the current rate is null
C9_ZeroSupplyNotInferred ==
    /\ Computed
    /\ ~Supplied(req.current_rate)
    /\ audit.totals.supply_charges = Zero
    /\ IsNum(locals.qty) /\ locals.qty # Zero
    /\ Div(audit.totals.supply_charges, locals.qty) = Zero
    /\ locals.currentRate = Null

\* C10: the offer rate is non-null only when the request supplies offer_rate;
\* without it monthlySavings, annualSavings and all termSavings are null.
C10_OfferRateNeverInferred ==
    Computed =>
        /\ locals.offerRate # Null => Supplied(req.offer_rate)
        /\ ~Supplied(req.offer_rate) =>
              /\ savings.monthlySavings = Null
              /\ savings.annualSavings = Null
              /\ \A y \in Terms : savings.termSavings[y] = Null

C10_Witness ==
    /\ pc = "done" /\ res.status = 200
    /\ ~Supplied(req.offer_rate)
    /\ Truthy(locals.qty) /\ IsNum(locals.currentRate)
    /\ audit.totals.supply_charges # Null
    /\ savings.monthlySavings = Null /\ savings.termSavings["2yr"] = Null

----------------------------------------------------------------------------
(* Properties of findMoney (SpecMoney) *)

Range(f) == {f[i] : i \in DOMAIN f}

\* the lines that match a label phrase
Hits(lines, labels) == {i \in 1..Len(lines) : LabelHit(lines[i], labels)}

\* the forward window of line i, clipped at the end of the document
Window(lines, i) == {j \in i..(i + 2) : j <= Len(lines)}

\* the lines of the window of line i that hold an amount
WithAmount(lines, i) == {j \in Window(lines, i) : FirstMoney(lines[j]) # Null}

\* the label lines whose window holds an amount
Qualifying(lines, labels) ==
    {i \in Hits(lines, labels) : WithAmount(lines, i) # {}}

Least(S) == CHOOSE k \in S : \A m \in S : k <= m

\* C5: when a label line has an amount in its window, the result is an amount
\* of the window of a label line, whatever larger amounts the document holds.
C5_LabelBeforeMaximum ==
    mpc = "done" =>
        LET lines == Lines(mtext)
            hits  == Hits(lines, mlabels)
        IN  Qualifying(lines, mlabels) # {} =>
                \E i \in hits : \E j \in Window(lines, i) :
                    mout \in Range(AllMoney(lines[j]))

C5_Witness ==
    /\ mpc = "done"
    /\ LET lines == Lines(mtext)
       IN  /\ Qualifying(lines, mlabels) # {}
           /\ \E i \in Hits(lines, mlabels) : \E j \in Window(lines, i) :
                  mout \in Range(AllMoney(lines[j]))
    /\ \E v \in Range(AllMoney(mtext)) : Gt(v, mout)

\* C6: in label mode the result is the first amount of the first line that
\* holds one among lines i, i+1, i+2, for the smallest label line i whose
\* window holds an amount.
C6_FirstQualifyingWindow ==
    mpc = "done" =>
        LET lines == Lines(mtext)
            qual  == Qualifying(lines, mlabels)
        IN  qual # {} =>
                mout = FirstMoney(lines[Least(WithAmount(lines, Least(qual)))])

C6_Witness ==
    /\ mpc = "done"
    /\ LET lines == Lines(mtext)
           qual  == Qualifying(lines, mlabels)
       IN  \E i1, i2 \in qual :
              /\ i1 < i2
              /\ i1 = Least(qual)
              /\ FirstMoney(lines[i1]) = Null
              /\ FirstMoney(lines[i1 + 1]) = mout
              /\ FirstMoney(lines[i2]) # Null /\ FirstMoney(lines[i2]) # mout

\* C7: when no label line has an amount in its window, the result is the
\* numeric maximum of all amounts of the document, and null when there is none.
C7_FallbackIsMaximum ==
    mpc = "done" =>
        LET lines == Lines(mtext)
            all   == AllMoney(mtext)
        IN  Qualifying(lines, mlabels) = {} =>
                IF all = <<>> THEN mout = Null
                ELSE /\ mout \in Range(all)
                     /\ \A v \in Range(all) : ~Gt(v, mout)

C7_Witness ==
    /\ mpc = "done"
    /\ LET lines == Lines(mtext)
           all   == AllMoney(mtext)
       IN  /\ Hits(lines, mlabels) # {} /\ Qualifying(lines, mlabels) = {}
           /\ Len(all) >= 2
           /\ mout # Null /\ mout # Head(all)
           /\ \A v \in Range(all) : ~Gt(v, mout)

----------------------------------------------------------------------------
(* Properties of repeated extraction (SpecClock) *)

\* C21: two invocations of auditFromText on the same text return the same
\* record, whenever they run and whatever was parsed before or in between
C21_SameTextSameRecord ==
    Len(fout.same) = 2 => fout.same[1] = fout.same[2]

\* two invocations on one text, one millisecond or more apart, with another
\* text parsed meanwhile: the records agree on every extracted field and
\* differ in meta.parsed_at
C21_ParsedAtDiffers ==
    /\ Len(fout.same) = 2 /\ fout.other # Undefined
    /\ fout.same[1] # Thrown /\ fout.same[2] # Thrown
    /\ [fout.same[1] EXCEPT !.meta = Null] = [fout.same[2] EXCEPT !.meta = Null]
    /\ fout.same[1].meta.parsed_at # fout.same[2].meta.parsed_at

----------------------------------------------------------------------------
(* Properties of parseDates (SpecDates) *)

\* the entries of DateLines for the lines ls, in order
DateEntries(ls) == [i \in 1..Len(ls) |-> CHOOSE d \in DateLines : d.line = ls[i]]

\* the period of the first line of the given kind
FirstOfKind(es, kind) ==
    LET i == CHOOSE j \in 1..Len(es) :
                 es[j].kind = kind /\ \A h \in 1..(j - 1) : es[h].kind # kind
    IN  [start |-> Str(es[i].start), end |-> Str(es[i].end)]

HasKind(es, kind) == \E j \in 1..Len(es) : es[j].kind = kind

\* the period the claim expects for lines es
ExpectedPeriod(es) ==
    IF HasKind(es, "long") THEN FirstOfKind(es, "long")
    ELSE IF HasKind(es, "numeric") THEN FirstOfKind(es, "numeric")
    ELSE [start |-> Null, end |-> Null]

\* C22: parseDates returns the two dates of the phrase-anchored long form
\* when the text has one, also when a numeric pair occurs (earlier) in the
\* text; the numeric pair only when the long form is absent; start is null
\* iff end is null, and both are null exactly when neither form occurs
C22_LongFormFirst ==
    fpc = "done" =>
        /\ fout = ExpectedPeriod(DateEntries(fin.lines))
        /\ (fout.start = Null) <=> (fout.end = Null)
        /\ (fout.start = Null) <=>
               (~RxTest(RxPeriodLong, fin.text) /\ ~RxTest(RxPeriodNumeric, fin.text))

\* a numeric pair on the first line, the long form on the second: the long
\* form's dates are returned
C22_Witness ==
    /\ fpc = "done"
    /\ fin.text = "Read 01/05/24 - 02/04/24\nBilling period: Jan 5, 2024 to Feb 4, 2024"
    /\ fout = [start |-> Str("Jan 5, 2024"), end |-> Str("Feb 4, 2024")]

----------------------------------------------------------------------------
(* Properties of the therms derivation (SpecTherms) *)

\* the figure of the first line of the given kind, null without one
FigureOf(es, kind) ==
    IF \E j \in 1..Len(es) : es[j].kind = kind
    THEN es[CHOOSE j \in 1..Len(es) :
                es[j].kind = kind /\ \A h \in 1..(j - 1) : es[h].kind # kind].value
    ELSE Null

\* the therms the claim expects from the matched figures
ExpectedTherms(therms, ccf, conv) ==
    IF therms # Null THEN therms
    ELSE IF ccf # Null /\ conv # Null THEN ToFixed2(Mul(ccf, conv))
    ELSE Null

\* C23: a therms quantity matched in the text is returned unchanged; ccf x
\* conversion factor, rounded to 2 decimal places, is used only when no therms
\* quantity is matched and both ccf and the factor were found; otherwise
\* therms is null
C23_ThermsDerivation ==
    fpc = "done" =>
        fout.usage.therms = ExpectedTherms(FigureOf(fin.lines, "therms"),
                                           FigureOf(fin.lines, "ccf"),
                                           FigureOf(fin.lines, "conv"))

\* the bill states 0 therms, 119 ccf and the factor 1.026: the record holds
\* 122.09 therms
C23_ZeroThermsOverwritten ==
    /\ fpc = "done"
    /\ fin.text = "Total usage in ccf 119 ccf\nTherm conversion factor 1.026\nTotal Gas Use 0 therms"
    /\ fout.usage.therms = Num(12209, 100)

----------------------------------------------------------------------------
(* Properties of the notification relay (SpecHtml) *)

\* the handler holds the record info parsed from the text, the amounts
\* computed from it and the request, and has answered with their proposal
ProposalOf(info) ==
    /\ hinfo = info
    /\ hcalc = HandlerCalc2(hreq, info)
    /\ hres.status = 200 /\ hres.kind = "html"
    /\ hres.body = HtmlBody(info, hcalc)

\* C24: a mail is attempted only with SMTP_URL set and only after the bill
\* was parsed and the savings computed; the attempt leaves the parsed and
\* computed records as they were; whether the send succeeds or fails, the
\* request is answered with the HTML proposal of those records, never with
\* the 500 response
C24_MailNeverChangesAnswer ==
    /\ (hpc = "mailing" \/ hmail # "none") =>
           smtp /\ hinfo # Undefined /\ hcalc # Undefined
    /\ hpc = "mailing" => hres = NoRes /\ hcalc = HandlerCalc2(hreq, hinfo)
    /\ hmail # "none" => hpc = "done" /\ ProposalOf(parseBillText2(htext.s))

\* a send that failed, for a bill with a usage figure: the proposal is the answer
C24_Witness ==
    /\ hmail = "failed" /\ hpc = "done"
    /\ htext = Str("412 kWh")
    /\ hres.status = 200 /\ hres.kind = "html"
    /\ hres.body.monthly_usage = "412 kWh"

----------------------------------------------------------------------------
(* Properties of the responses of server.js (SpecLive) *)

\* the file name ends in .pdf, in any letter case
PdfNamed(r) ==
    Len(r.name) >= 4 /\ ToLower(SubSeq(r.name, Len(r.name) - 3, Len(r.name))) = ".pdf"

\* the format field spells pdf, in any letter case
PdfAsked(r) == r.format # Undefined /\ ToLower(r.format.s) = "pdf"

\* the response res is the one the ordered checks decide for request r and
\* extracted text t, or the 500 response
Decided(r, t) ==
    IF ~r.hasFile
    THEN res = JsonRes(400, [error |-> "No file uploaded. Field name must be 'bill'."])
    ELSE IF ~PdfNamed(r)
    THEN res = JsonRes(400, [error |-> "Please upload a PDF file."])
    ELSE \/ res = JsonRes(500, [error |-> "Server error"])
         \/ res = JsonRes(422, [error |-> "Could not extract text from PDF."])
                /\ Trim(t) = ""
         \/ /\ res.status = 200 /\ Trim(t) # ""
            /\ res.kind = IF PdfAsked(r) THEN "pdf" ELSE "json"

\* C25: every request is answered, with one response that never changes,
\* decided in this order: no file 400; name not ending in .pdf 400; blank
\* text 422; otherwise 200, a PDF iff format spells pdf in any letter case,
\* else JSON; 500 for an error; a 400 is sent before the text extraction starts
C25_OneResponseInOrder ==
    /\ [](pc = "done" => Decided(req, text))
    /\ [](pc # "done" => res = NoRes)
    /\ [][res # NoRes => res' = res]_vars
    /\ [][res'.status = 400 => pc = "idle"]_vars
    /\ (pc # "idle") ~> (pc = "done" /\ res # NoRes)

\* format "PDF" in upper case was answered with the PDF
C25_Witness ==
    /\ pc = "done" /\ req.format = Str("PDF") /\ req.name = "bill.PDF"
    /\ res.status = 200 /\ res.kind = "pdf"

----------------------------------------------------------------------------
(* Properties of the buffered PDF response (SpecPdf) *)

\* the bytes of the chunks cs one after the other
RECURSIVE Joined(_)
Joined(cs) == IF cs = <<>> THEN "" ELSE Head(cs) \o Joined(Tail(cs))

\* C26: nothing of the PDF response is written before the document has
\* emitted 'end'; the body is the emitted chunks joined in emission order and
\* Content-Length is its length; after an 'error' before 'end' the answer is
\* the 500 response and never the PDF
C26_BufferedPdf ==
    /\ doc.first # "end" => pdfres.kind # "pdf"
    /\ pdfres.kind = "pdf" =>
           /\ pdfres.status = 200
           /\ pdfres.body = Joined(doc.emitted)
           /\ pdfres.headers.ContentLength = NatToString(Len(Joined(doc.emitted)))
    /\ doc.first = "error" =>
           pdfres = NoRes \/ pdfres = JsonRes(500, [error |-> "Server error"])
    /\ pdfres.status = 500 => doc.first = "error"

\* three different chunks were emitted and sent in that order
C26_Witness ==
    /\ doc.emitted = <<"%PDF-1.3", "1 0 obj", "%%EOF">>
    /\ pdfres.kind = "pdf" /\ pdfres.body = "%PDF-1.31 0 obj%%EOF"
    /\ pdfres.headers.ContentLength = "20"

----------------------------------------------------------------------------
(* Properties of the global-maximum fallback (SpecFallback) *)

\* the amounts, in cents, of the lines es
CentsIn(es) == UNION {es[i].cents : i \in 1..Len(es)}

\* the maximum amount of the lines es
MaxAmount(es) == Num(CHOOSE c \in CentsIn(es) : \A d \in CentsIn(es) : d <= c, 100)

\* a label phrase of the totals field is on some line of es
Labelled(es, field) == \E i \in 1..Len(es) : field \in es[i].labels

\* the value v of a totals field is present, and is the maximum of the
\* document when the field's labels are nowhere in it
FieldFilled(v, es, field) ==
    v # Null /\ (~Labelled(es, field) => v = MaxAmount(es))

\* a positive quantity was extracted
PositiveQty(a) ==
    IsNum(inferMonthlyQtyAndUnit(a).qty) /\ inferMonthlyQtyAndUnit(a).qty.n > 0

\* C27: for a document with a currency-shaped amount no totals field is
\* null, and a field whose label phrases are nowhere in the document is the
\* maximum amount of the document; hence inferCurrentRate is non-null
\* whenever a positive quantity was extracted and the document holds a
\* non-zero amount
C27_FallbackFillsTotals ==
    fpc = "done" /\ CentsIn(fin.lines) # {} =>
        /\ FieldFilled(fout.audit.totals.total_due, fin.lines, "total_due")
        /\ FieldFilled(fout.audit.totals.delivery_charges, fin.lines, "delivery_charges")
        /\ FieldFilled(fout.audit.totals.supply_charges, fin.lines, "supply_charges")
        /\ FieldFilled(fout.audit.totals.taxes, fin.lines, "taxes")
        /\ (PositiveQty(fout.audit) /\ CentsIn(fin.lines) # {0}) => fout.rate # Null

\* 412 kWh, a supply-charge line of $0.00 and another amount of $61.00: no
\* rate is inferred
C27_ZeroSupplyNoRate ==
    /\ fpc = "done"
    /\ fin.text = "Supply charges $0.00\nAmount due $61.00\n412 kWh"
    /\ fout.audit.totals.supply_charges = Zero
    /\ fout.audit.usage.electricity_kwh = Num(412, 1)
    /\ fout.rate = Null

----------------------------------------------------------------------------
(* Properties of pickMatrixOffer (SpecPick) *)

\* the name the rows are compared with: the canonical name, or the name
\* itself when it has none
CanonOf(name) ==
    IF normalizeUtilityName(name) = Null THEN name ELSE normalizeUtilityName(name).s

\* one of the two names contains the other, letter case aside
Contained(a, b) ==
    Includes(ToLower(a), ToLower(b)) \/ Includes(ToLower(b), ToLower(a))

\* the rows of MATRIX that match the utility name
MatchingRows(name) ==
    {MATRIX[i] : i \in {j \in 1..Len(MATRIX) : Contained(MATRIX[j].utility, CanonOf(name))}}

\* row is a matching row of least matrixCents
CheapestOf(row, rows) ==
    row \in rows /\ \A r \in rows : ~Gt(row.matrixCents, r.matrixCents)

\* C28: pickMatrixOffer returns null for an empty name and when no row of
\* MATRIX matches the canonical name (containment in either direction, letter
\* case aside); otherwise a matching row whose matrixCents is least among the
\* matching rows; MATRIX has the same rows in the same order after the call
C28_CheapestMatchingRow ==
    fpc = "done" =>
        /\ matrix = MATRIX
        /\ IF fin = Null \/ fin = Str("") THEN fout = Null
           ELSE IF MatchingRows(fin.s) = {} THEN fout = Null
           ELSE CheapestOf(fout, MatchingRows(fin.s))

\* "Eversource" matches five rows; the cheapest, not the first, is returned
C28_Witness ==
    /\ fpc = "done" /\ fin = Str("Eversource")
    /\ Cardinality(MatchingRows("Eversource")) = 5
    /\ fout.utility = "Eversource (Formerly PSNH)" /\ fout.matrixCents = Num(10226, 1000)
    /\ MATRIX[1].utility = "Eversource (Connecticut Light Power)"

----------------------------------------------------------------------------
(* Properties of findMoneyNear against findMoney (SpecNear) *)

\* near is findMoney's value when some label line has an amount in its
\* window (q), and null otherwise
NearAgrees(q, near, money) ==
    IF q THEN near = money /\ near # Null ELSE near = Null

\* C29: findMoneyNear returns what findMoney returns whenever some label
\* line's 3-line window holds an amount, and null exactly when findMoney
\* takes the global-maximum fallback (no label line, or no amount in the
\* window of any label line)
C29_NearIsMoneyWithoutFallback ==
    fpc = "done" =>
        NearAgrees(Qualifying(Lines(fin.text), fin.labels) # {}, fout.near, fout.money)

\* no labels: findMoney falls back to the maximum 1250, findMoneyNear
\* returns the first amount 99.99
C29_NoLabelsFirstAmount ==
    /\ fpc = "done"
    /\ fin = [text |-> "$99.99 then 1,250.00", labels |-> <<>>]
    /\ fout.money = Num(1250, 1) /\ fout.near = Num(9999, 100)

----------------------------------------------------------------------------
(* Properties of the quantity selections (SpecUnit) *)

\* the fields of the usage record u
UsageFields(u) == {u.electricity_kwh, u.gas_therms, u.gas_ccf}

\* every quantity of u is null or strictly positive
NullOrPositive(u) == \A v \in UsageFields(u) : v = Null \/ (IsNum(v) /\ v.n > 0)

\* the three selections are the same
SameSelection(out) == out.server = out.part0 /\ out.server = out.part2

\* C30: on a usage record whose quantities are each null or strictly
\* positive the three selections choose the same (quantity, unit); they can
\* differ only on records where some quantity is 0
C30_SelectionsAgree ==
    fpc = "done" =>
        /\ NullOrPositive(fin) => SameSelection(fout)
        /\ ~SameSelection(fout) => Zero \in UsageFields(fin)

\* C30, amended: on such a record the three selections choose the same
\* quantity, and the same unit when some quantity is present; with all three
\* null the unit is null in server.js and part_000 and "units" in part_002;
\* the selections can differ only when some quantity is 0 or all are null
C30_SelectionsAgreeWhenPresent ==
    fpc = "done" =>
        /\ NullOrPositive(fin) =>
               /\ fout.server = fout.part0
               /\ fout.server.qty = fout.part2.qty
               /\ UsageFields(fin) # {Null} => fout.server = fout.part2
               /\ UsageFields(fin) = {Null} =>
                      /\ fout.server = [qty |-> Null, unit |-> Null]
                      /\ fout.part2 = [qty |-> Null, unit |-> Str("units")]
        /\ ~SameSelection(fout) => (Zero \in UsageFields(fin) \/ UsageFields(fin) = {Null})

\* no quantity was extracted: unit null in server.js, "units" in part_002
C30_Witness ==
    /\ fpc = "done" /\ UsageFields(fin) = {Null}
    /\ fout.server.unit = Null /\ fout.part0.unit = Null
    /\ fout.part2.unit = Str("units")

====
